---- MODULE Spec2Model ----
(***************************************************************************)
(* TxLens: the transaction parser (src/src/parser/TransactionParser.ts).   *)
(*                                                                         *)
(* A raw transaction is parsed by one synchronous call of                  *)
(* TransactionParser.parse over the decoder list given to the constructor. *)
(* The model keeps the parser's decoder list, the raw transaction handed   *)
(* to parse, the outcome of the call (a ParsedTransaction or a thrown      *)
(* TxLensError) and the calls parse made on the decoders.                  *)
(*                                                                         *)
(* JavaScript values are represented as follows.                           *)
(*   - an optional value (null / undefined / absent) is a sequence of      *)
(*     length 0 or 1;                                                       *)
(*   - a JS number that may be NaN or Infinity is a record [k, v] with     *)
(*     k in {"num", "NaN", "Infinity"} and v its integer value;            *)
(*   - array indices are kept 0-based as in the source, and an array is a  *)
(*     TLA+ sequence, so a[i] of the source is a[i + 1] here;              *)
(*   - a string that the code parses is a sequence of characters.          *)
(***************************************************************************)
EXTENDS Integers, Sequences, FiniteSets, TLC

VARIABLES decoders, raw, result, consulted, decodeCall, scoreCall, find, heap, frames, listCall

vars == <<decoders, raw, result, consulted, decodeCall, scoreCall, find, heap,
          frames, listCall>>

(***************************************************************************)
(* Bounds of the model.                                                    *)
(***************************************************************************)
MaxKeys == 2
MaxInstr == 2
MaxBal == 2
MaxDecoders == 2
MaxTokenBalances == 1
\* The largest second count whose Date is valid; stands for 8.64e12 s
\* (ECMAScript's 8.64e15 ms time range), scaled to the model's integers.
MaxDateSec == 2
\* The longest instruction payload, in bytes.
MaxPayload == 12
\* The longest list of rules other than DEFAULT_RULES.
MaxRules == 3
\* The lamports of one SOL; stands for 1_000_000_000, scaled to the
\* model's integers.
LamportsPerSol == 100
\* The longest list of transactions the find command gets.
MaxBatch == 3
\* calls in progress at once
MaxCalls == 2

(***************************************************************************)
(* JavaScript values.                                                      *)
(***************************************************************************)
Undefined == "undefined"

Num(v) == [k |-> "num", v |-> v]

NaN == [k |-> "NaN", v |-> 0]

Infinity == [k |-> "Infinity", v |-> 0]

IsNaN(x) == x.k = "NaN"

Abs(n) == IF n < 0 THEN -n ELSE n

\* x - y on JS numbers whose finite values are integers.
JsMinus(x, y) ==
    IF x.k = "NaN" \/ y.k = "NaN" THEN NaN
    ELSE IF x.k = "Infinity" /\ y.k = "Infinity" THEN NaN
    ELSE IF x.k = "Infinity" THEN Infinity
    ELSE IF y.k = "Infinity" THEN [k |-> "Infinity", v |-> -1]
    ELSE Num(x.v - y.v)

\* Math.abs
JsAbs(x) == IF x.k = "num" THEN Num(Abs(x.v)) ELSE [x EXCEPT !.v = 0]

\* x === 0, x < 0, x > 0 (every comparison with NaN is false)
JsIsZero(x) == x.k = "num" /\ x.v = 0

JsNegative(x) == (x.k = "num" /\ x.v < 0) \/ (x.k = "Infinity" /\ x.v < 0)

JsPositive(x) == (x.k = "num" /\ x.v > 0) \/ (x.k = "Infinity" /\ x.v >= 0)

(***************************************************************************)
(* parseFloat on the strings a token amount can be: the longest prefix of  *)
(* decimal digits is converted, and a string with no such prefix (the      *)
(* empty string, a string starting with a letter) gives NaN.               *)
(***************************************************************************)
Digits == <<"0", "1", "2", "3", "4", "5", "6", "7", "8", "9">>

IsDigit(c) == \E d \in 1..Len(Digits) : Digits[d] = c

DigitValue(c) == (CHOOSE d \in 1..Len(Digits) : Digits[d] = c) - 1

\* the length of the longest prefix of s made of digits
DigitPrefixLen(s) ==
    IF \A i \in 1..Len(s) : IsDigit(s[i]) THEN Len(s)
    ELSE (CHOOSE i \in 1..Len(s) :
             ~IsDigit(s[i]) /\ \A j \in 1..(i - 1) : IsDigit(s[j])) - 1

RECURSIVE DecimalValue(_, _)
DecimalValue(s, n) ==
    IF n = 0 THEN 0 ELSE 10 * DecimalValue(s, n - 1) + DigitValue(s[n])

parseFloat(s) ==
    IF DigitPrefixLen(s) = 0 THEN NaN ELSE Num(DecimalValue(s, DigitPrefixLen(s)))

(***************************************************************************)
(* Program ids and the static registry of program names.                   *)
(***************************************************************************)
SYSTEM_PROGRAM_ID == "11111111111111111111111111111111"

TOKEN_PROGRAM_ID == "TokenkegQfeZyiNwAJbNbGKPFXCWuBvf9Ss623VQ5DA"

\* an address that KNOWN_PROGRAMS does not list
UnlistedAddress == "4Nd1mBQtrMJVYVfKf2PJy9NZUZdTAsp7D4xWLs4gDB4T"

KNOWN_PROGRAMS ==
    ( SYSTEM_PROGRAM_ID :> "System Program"
   @@ TOKEN_PROGRAM_ID :> "Token Program"
   @@ "TokenzQdBNbLqP5VEhdkAS6EPFLC1PHnBqCXEpPxuEb" :> "Token-2022 Program"
   @@ "ATokenGPvbdGVxr1b2hvZbsiqW5xWH25efTNsLJA8knL" :> "Associated Token Program"
   @@ "So1endDq2YkqhipRh3WViPa8hdiSpxWy6z3Z6tMCpAo" :> "Solend"
   @@ "9xQeWvG816bUx9EPjHmaT23yvVM2ZWbrrpZb9PusVFin" :> "Serum DEX v3"
   @@ "JUP6LkbZbjS1jKKwapdHNy74zcZ3tLUZoi5QNyVTaV4" :> "Jupiter Aggregator"
   @@ "whirLbMiicVdio4qvUfM5KAg6Ct8VwpYzGff3uctyCc" :> "Orca Whirlpool"
   @@ "CAMMCzo5YL8w4VFF8KVHrK22GGUsp5VTaW7grrKgrWqK" :> "Raydium CLMM"
   @@ "Stake11111111111111111111111111111111111111" :> "Stake Program"
   @@ "Vote111111111111111111111111111111111111111" :> "Vote Program"
   @@ "Config1111111111111111111111111111111111111" :> "Config Program"
   @@ "BPFLoaderUpgradeab1e11111111111111111111111" :> "BPF Upgradeable Loader"
   @@ "BPFLoader2111111111111111111111111111111111" :> "BPF Loader"
   @@ "ComputeBudget111111111111111111111111111111" :> "Compute Budget Program"
   @@ "AddressLookupTab1e1111111111111111111111111" :> "Address Lookup Table Program"
   @@ "metaqbxxUerdq28cj1RbAWkYQm3ybzjb6a8bt518x1s" :> "Metaplex Token Metadata"
   @@ "p1exdMJcjVao65QdewkaZRUnU6VPSXhus9n2GzWfh98" :> "Metaplex"
   @@ "cndy3Z4yapfJBmL3ShUp5exZKqR3z33thTzeNMm2gRZ" :> "Candy Machine v2" )

getProgramName(programId) ==
    IF programId \in DOMAIN KNOWN_PROGRAMS THEN KNOWN_PROGRAMS[programId]
    ELSE Undefined

(***************************************************************************)
(* Errors.  A thrown value is a TxLensError (with its code and the         *)
(* signature its details carry) or another Error, such as the TypeError    *)
(* of reading a property of undefined.                                     *)
(***************************************************************************)
TxLensError(code, signature) ==
    [isTxLensError |-> TRUE, code |-> code, signature |-> signature]

TypeError == [isTxLensError |-> FALSE, code |-> "TypeError", signature |-> Undefined]

\* details that carry no signature field
NoSignature == "no signature field"

\* a step's outcome: a returned value or a thrown error
Returns(v) == [thrown |-> <<>>, value |-> <<v>>]

Throws(e) == [thrown |-> <<e>>, value |-> <<>>]

HasThrown(r) == r.thrown # <<>>

(***************************************************************************)
(* Account keys: accountKeys[i] is a string or an object with a pubkey.    *)
(***************************************************************************)
StringKey(a) == [kind |-> "string", pubkey |-> a]

ObjectKey(a) == [kind |-> "object", pubkey |-> a]

\* accountKeys[i] is undefined
KeyMissing(accountKeys, i) == i < 0 \/ i >= Len(accountKeys)

\* typeof accountKeys[i] === 'string' ? accountKeys[i] : accountKeys[i].pubkey
\* (reading .pubkey of undefined throws a TypeError)
ResolveAddress(accountKeys, i) ==
    IF KeyMissing(accountKeys, i) THEN Throws(TypeError)
    ELSE Returns(accountKeys[i + 1].pubkey)

(***************************************************************************)
(* parseAccountChanges (TransactionParser.ts 163-204).                     *)
(***************************************************************************)
\* the test of line 184 left out
SkipsNoChange(balanceChange) == FALSE

\* line 184: an account whose balance did not change is skipped
SkipsBalanceChange(balanceChange) == balanceChange = 0

\* the test i === 0 left out
NegativeIsFeePayer(i, balanceChange) == balanceChange < 0

\* line 195: i === 0 && balanceChange < 0
IsFeePayer(i, balanceChange) == i = 0 /\ balanceChange < 0

\* the body of the loop for index i (lines 180-200): changes after it
AccountChangeStep(accountKeys, preBalances, postBalances, i, changes) ==
    LET balanceChange == postBalances[i + 1] - preBalances[i + 1]
        address == ResolveAddress(accountKeys, i)
    IN  IF SkipsBalanceChange(balanceChange) THEN changes
        ELSE IF HasThrown(address) THEN changes   \* caught at line 197, logged
        ELSE Append(changes,
                    [address |-> address.value[1],
                     balanceChange |-> balanceChange,
                     isFeePayer |-> IsFeePayer(i, balanceChange)])

RECURSIVE AccountChangesLoop(_, _, _, _, _)
AccountChangesLoop(accountKeys, preBalances, postBalances, i, changes) ==
    IF i >= Len(preBalances) THEN changes
    ELSE AccountChangesLoop(accountKeys, preBalances, postBalances, i + 1,
             AccountChangeStep(accountKeys, preBalances, postBalances, i, changes))

parseAccountChanges(accountKeys, preBalances, postBalances) ==
    IF Len(preBalances) # Len(postBalances)
    THEN Throws(TxLensError("INVALID_BALANCE_DATA", NoSignature))
    ELSE Returns(AccountChangesLoop(accountKeys, preBalances, postBalances, 0, <<>>))

(***************************************************************************)
(* parseTokenTransfers (TransactionParser.ts 209-259).  balanceMap is a    *)
(* Map, which iterates in the order its keys were first set: it is a       *)
(* sequence of [key, pre, post] with distinct keys.                        *)
(***************************************************************************)
\* `${balance.accountIndex}-${balance.mint}`
TokenKey(balance) == <<balance.accountIndex, balance.mint>>

\* the position of key in the map, 0 when the map has no such key
MapIndex(map, key) ==
    IF \E n \in 1..Len(map) : map[n].key = key
    THEN CHOOSE n \in 1..Len(map) : map[n].key = key
    ELSE 0

\* balanceMap.set(key, entry): a known key keeps its position
MapSet(map, key, pre, post) ==
    LET entry == [key |-> key, pre |-> pre, post |-> post]
    IN  IF MapIndex(map, key) = 0 THEN Append(map, entry)
        ELSE [map EXCEPT ![MapIndex(map, key)] = entry]

\* lines 218-221
RECURSIVE PreBalancesLoop(_, _, _)
PreBalancesLoop(preTokenBalances, n, map) ==
    IF n > Len(preTokenBalances) THEN map
    ELSE PreBalancesLoop(preTokenBalances, n + 1,
             MapSet(map, TokenKey(preTokenBalances[n]), <<preTokenBalances[n]>>, <<>>))

\* lines 223-231
RECURSIVE PostBalancesLoop(_, _, _)
PostBalancesLoop(postTokenBalances, n, map) ==
    IF n > Len(postTokenBalances) THEN map
    ELSE LET postBalance == postTokenBalances[n]
             key == TokenKey(postBalance)
             at == MapIndex(map, key)
         IN  PostBalancesLoop(postTokenBalances, n + 1,
                 IF at # 0 THEN [map EXCEPT ![at].post = <<postBalance>>]
                 ELSE MapSet(map, key, <<>>, <<postBalance>>))

\* lines 253-254
TransferSides(change, address) ==
    [from |-> IF JsNegative(change) THEN address ELSE "unknown",
     to |-> IF JsPositive(change) THEN address ELSE "unknown"]

\* the body of the loop over the map (lines 235-255) for one entry:
\* the transfers after it, or the TypeError of resolving the address
TokenTransferStep(accountKeys, entry, transfers) ==
    LET preAmount == IF entry.pre # <<>>
                     THEN parseFloat(entry.pre[1].uiTokenAmount.amount) ELSE Num(0)
        postAmount == IF entry.post # <<>>
                      THEN parseFloat(entry.post[1].uiTokenAmount.amount) ELSE Num(0)
        change == JsMinus(postAmount, preAmount)
        balance == IF entry.post # <<>> THEN entry.post[1] ELSE entry.pre[1]
        address == ResolveAddress(accountKeys, balance.accountIndex)
    IN  IF JsIsZero(change) THEN Returns(transfers)
        ELSE IF HasThrown(address) THEN address
        ELSE Returns(Append(transfers,
                 [mint |-> balance.mint,
                  amount |-> JsAbs(change),
                  decimals |-> balance.uiTokenAmount.decimals,
                  from |-> TransferSides(change, address.value[1]).from,
                  to |-> TransferSides(change, address.value[1]).to]))

RECURSIVE TransfersLoop(_, _, _, _)
TransfersLoop(accountKeys, map, n, transfers) ==
    IF n > Len(map) THEN Returns(transfers)
    ELSE LET step == TokenTransferStep(accountKeys, map[n], transfers)
         IN  IF HasThrown(step) THEN step
             ELSE TransfersLoop(accountKeys, map, n + 1, step.value[1])

balanceMapOf(preTokenBalances, postTokenBalances) ==
    PostBalancesLoop(postTokenBalances, 1, PreBalancesLoop(preTokenBalances, 1, <<>>))

parseTokenTransfers(accountKeys, preTokenBalances, postTokenBalances) ==
    TransfersLoop(accountKeys, balanceMapOf(preTokenBalances, postTokenBalances), 1, <<>>)

(***************************************************************************)
(* Decoders (InstructionDecoder).  A registered decoder is an object with  *)
(* two methods; what the parser can observe of it is, for each program id, *)
(* whether canDecode returns true, returns false or throws, and whether    *)
(* decode returns a DecodedInstruction, returns null or throws.  id names  *)
(* the object, and the DecodedInstruction it returns carries it.           *)
(***************************************************************************)
canDecode(decoder, programId) ==
    IF programId \in decoder.faults THEN "throw"
    ELSE IF programId \in decoder.owns THEN "true"
    ELSE "false"

\* decoder.decode(instruction, accountKeys) when it does not throw
decode(decoder, instruction) ==
    IF decoder.dec = "null" THEN <<>>
    ELSE <<[type |-> decoder.type, params |-> <<<<"decoder", decoder.id>>>>]>>

Call(k, decoder, method) == [instruction |-> k, decoder |-> decoder.id, method |-> method]

(***************************************************************************)
(* parseProgramInteractions (TransactionParser.ts 117-158).                *)
(***************************************************************************)
\* the body of the loop over the decoders (lines 134-142) for one decoder
\* and instruction number k: what decoded is after it, whether the loop
\* is left (break), and the calls made on the decoder
DecoderStep(decoder, programId, instruction, k, decoded) ==
    IF canDecode(decoder, programId) = "throw"
    THEN [decoded |-> decoded, break |-> FALSE,
          calls |-> <<Call(k, decoder, "canDecode")>>]
    ELSE IF canDecode(decoder, programId) = "false"
    THEN [decoded |-> decoded, break |-> FALSE,
          calls |-> <<Call(k, decoder, "canDecode")>>]
    ELSE IF decoder.dec = "throw"
    THEN [decoded |-> decoded, break |-> FALSE,
          calls |-> <<Call(k, decoder, "canDecode"), Call(k, decoder, "decode")>>]
    ELSE [decoded |-> decode(decoder, instruction), break |-> TRUE,
          calls |-> <<Call(k, decoder, "canDecode"), Call(k, decoder, "decode")>>]

\* the break of line 137 left out
NeverLeavesLoop(step) == FALSE

\* line 137: break
LeavesLoop(step) == step.break

RECURSIVE DecodersLoop(_, _, _, _, _, _, _)
DecodersLoop(decs, j, programId, instruction, k, decoded, calls) ==
    IF j > Len(decs) THEN [decoded |-> decoded, calls |-> calls]
    ELSE LET step == DecoderStep(decs[j], programId, instruction, k, decoded)
         IN  IF LeavesLoop(step)
             THEN [decoded |-> step.decoded, calls |-> calls \o step.calls]
             ELSE DecodersLoop(decs, j + 1, programId, instruction, k,
                               step.decoded, calls \o step.calls)

\* decoded?.type without its || 'Unknown'
InteractionFieldsNoFallback(decoded) ==
    IF decoded # <<>> THEN [instructionType |-> decoded[1].type, details |-> decoded[1].params]
    ELSE [instructionType |-> Undefined, details |-> <<>>]

\* lines 148-149: decoded?.type || 'Unknown', decoded?.params || {}
InteractionFields(decoded) ==
    IF decoded # <<>> THEN [instructionType |-> decoded[1].type, details |-> decoded[1].params]
    ELSE [instructionType |-> "Unknown", details |-> <<>>]

\* the try/catch of lines 134-142 left out: what a decoder throws reaches
\* the catch of line 151 and the instruction gets no entry
InteractionStepWithoutInnerCatch(accountKeys, instruction, k, decs, acc) ==
    LET programId == ResolveAddress(accountKeys, instruction.programIdIndex)
    IN  IF HasThrown(programId) THEN acc
        ELSE LET loop == DecodersLoop(decs, 1, programId.value[1], instruction, k, <<>>, <<>>)
                 fields == InteractionFields(loop.decoded)
                 threw == \E c \in 1..Len(loop.calls) :
                              LET decoder == decs[loop.calls[c].decoder]
                              IN  \/ /\ loop.calls[c].method = "canDecode"
                                     /\ canDecode(decoder, programId.value[1]) = "throw"
                                  \/ /\ loop.calls[c].method = "decode"
                                     /\ decoder.dec = "throw"
             IN  IF threw
                 THEN [interactions |-> acc.interactions, calls |-> acc.calls \o loop.calls]
                 ELSE [interactions |-> Append(acc.interactions,
                          [programId |-> programId.value[1],
                           programName |-> getProgramName(programId.value[1]),
                           instructionType |-> fields.instructionType,
                           details |-> fields.details]),
                       calls |-> acc.calls \o loop.calls]

\* the body of the loop over the instructions (lines 124-154) for
\* instruction number k (0-based): the interactions and the calls after it
InteractionStep(accountKeys, instruction, k, decs, acc) ==
    LET programId == ResolveAddress(accountKeys, instruction.programIdIndex)
    IN  IF HasThrown(programId) THEN acc          \* caught at line 151, logged
        ELSE LET loop == DecodersLoop(decs, 1, programId.value[1], instruction, k, <<>>, <<>>)
                 fields == InteractionFields(loop.decoded)
             IN  [interactions |-> Append(acc.interactions,
                      [programId |-> programId.value[1],
                       programName |-> getProgramName(programId.value[1]),
                       instructionType |-> fields.instructionType,
                       details |-> fields.details]),
                  calls |-> acc.calls \o loop.calls]

RECURSIVE InteractionsLoop(_, _, _, _, _)
InteractionsLoop(accountKeys, instructions, k, decs, acc) ==
    IF k >= Len(instructions) THEN acc
    ELSE InteractionsLoop(accountKeys, instructions, k + 1, decs,
             InteractionStep(accountKeys, instructions[k + 1], k, decs, acc))

parseProgramInteractions(accountKeys, instructions, decs) ==
    InteractionsLoop(accountKeys, instructions, 0, decs,
                     [interactions |-> <<>>, calls |-> <<>>])

(***************************************************************************)
(* SystemProgramDecoder (SystemProgramDecoder.ts).  instruction.data is    *)
(* kept as the bytes bs58.decode gives for it, or marked as not being      *)
(* base-58 text.  params is the list of its fields.  A number that readU64 builds is a double: it is kept as  *)
(* nine base-256 digits, least significant first, rounded after every      *)
(* addition to the 53 significant bits a double holds.                     *)
(***************************************************************************)
Base58Data(bytes) == [base58 |-> TRUE, bytes |-> bytes]

NotBase58Data == [base58 |-> FALSE, bytes |-> <<>>]

Error == [isTxLensError |-> FALSE, code |-> "Error", signature |-> Undefined]

\* bs58.decode(instruction.data), line 20
bs58decode(data) ==
    IF data.base58 THEN Returns(data.bytes) ELSE Throws(Error)

\* bs58.encode(bytes): the text is determined by the bytes
bs58encode(bytes) == [base58 |-> TRUE, bytes |-> bytes]

BigDigits == 9

BigZero == [n \in 1..BigDigits |-> 0]

\* byte * Math.pow(2, 8 * i), which is exact
BigTerm(byte, i) == [n \in 1..BigDigits |-> IF n = i + 1 THEN byte ELSE 0]

RECURSIVE BigAddFrom(_, _, _, _)
BigAddFrom(a, b, n, carry) ==
    IF n > BigDigits THEN <<>>
    ELSE <<(a[n] + b[n] + carry) % 256>>
         \o BigAddFrom(a, b, n + 1, (a[n] + b[n] + carry) \div 256)

\* the exact sum
BigAdd(a, b) == BigAddFrom(a, b, 1, 0)

\* the number of bits of a digit
BitLength(x) == CHOOSE n \in 0..8 : x < 2^n /\ (n = 0 \/ x >= 2^(n - 1))

\* the position of the leading bit of a non-zero number
LeadingBit(a) ==
    LET top == CHOOSE n \in 1..BigDigits : a[n] # 0 /\ \A o \in (n + 1)..BigDigits : a[o] = 0
    IN  8 * (top - 1) + BitLength(a[top]) - 1

\* the significant bits of a double (IEEE 754 binary64)
DoubleBits == 53

\* the double nearest to an integer, ties to even: past 53 significant bits
\* the low bits are dropped
RoundToDouble(a) ==
    IF a = BigZero \/ LeadingBit(a) < DoubleBits THEN a
    ELSE LET q == 2^(LeadingBit(a) - (DoubleBits - 1))
             low == a[1] + 256 * a[2]
             rem == low % q
             kept == low - rem
             up == \/ 2 * rem > q
                   \/ 2 * rem = q /\ (low \div q) % 2 = 1
             truncated == [a EXCEPT ![1] = kept % 256, ![2] = kept \div 256]
             increment == [n \in 1..BigDigits |->
                              IF n = 1 THEN q % 256 ELSE IF n = 2 THEN q \div 256 ELSE 0]
         IN  IF up THEN BigAdd(truncated, increment) ELSE truncated

BigNum(digits) == [k |-> "num", base256 |-> digits]

\* value += buffer[offset + i] * Math.pow(2, 8 * i), line 150
DoublePlus(value, term) == RoundToDouble(BigAdd(value, term))

\* readU64, lines 147-153: buffer[offset + i] past the end of the buffer is
\* undefined and makes the sum NaN
RECURSIVE readU64Loop(_, _, _, _)
readU64Loop(buffer, offset, i, value) ==
    IF i >= 8 THEN value
    ELSE IF IsNaN(value) \/ offset + i >= Len(buffer)
    THEN readU64Loop(buffer, offset, i + 1, NaN)
    ELSE readU64Loop(buffer, offset, i + 1,
             BigNum(DoublePlus(value.base256, BigTerm(buffer[offset + i + 1], i))))

readU64(buffer, offset) == readU64Loop(buffer, offset, 0, BigNum(BigZero))

\* readU32, lines 135-142
readU32(buffer, offset) ==
    IF offset + 3 >= Len(buffer) THEN NaN
    ELSE Num(buffer[offset + 1] + buffer[offset + 2] * 256
             + buffer[offset + 3] * 65536 + buffer[offset + 4] * 16777216)

\* readPubkey, lines 158-161: slice stops at the end of the buffer
readPubkey(buffer, offset) ==
    bs58encode(SubSeq(buffer, offset + 1,
                      IF offset + 32 <= Len(buffer) THEN offset + 32 ELSE Len(buffer)))

\* getAccount, lines 23-28: instruction.accounts[index] past the end is
\* undefined, and so is accountKeys[undefined]
getAccount(instruction, accountKeys, index) ==
    IF index >= Len(instruction.accounts) THEN Throws(TypeError)
    ELSE ResolveAddress(accountKeys, instruction.accounts[index + 1])

FailedToDecode(type) == [type |-> type, params |-> <<<<"error", "Failed to decode">>>>]

\* canDecode, lines 10-12
SystemCanDecode(programId) == programId = SYSTEM_PROGRAM_ID

\* the accounts a case of the switch reads, by instruction type
SystemAccountRoles(instructionType) ==
    IF instructionType \in {0, 2, 3, 7} THEN <<0, 1>>
    ELSE IF instructionType \in {1, 6, 8} THEN <<0>>
    ELSE IF instructionType = 4 THEN <<0, 2>>
    ELSE IF instructionType = 5 THEN <<0, 1, 4>>
    ELSE <<>>

\* the switch of lines 30-122, reached when no getAccount of the case throws
SystemSwitch(instruction, accountKeys, data, instructionType) ==
    LET account(index) == getAccount(instruction, accountKeys, index).value[1]
    IN  IF instructionType = Num(0)
        THEN [type |-> "CreateAccount",
              params |-> <<<<"from", account(0)>>,
                           <<"to", account(1)>>,
                           <<"lamports", readU64(data, 4)>>,
                           <<"space", readU64(data, 12)>>,
                           <<"owner", readPubkey(data, 20)>>>>]
        ELSE IF instructionType = Num(2)
        THEN [type |-> "Transfer",
              params |-> <<<<"from", account(0)>>,
                           <<"to", account(1)>>,
                           <<"lamports", readU64(data, 4)>>>>]
        ELSE IF instructionType = Num(8)
        THEN [type |-> "Allocate",
              params |-> <<<<"account", account(0)>>,
                           <<"space", readU64(data, 4)>>>>]
        ELSE IF instructionType = Num(1)
        THEN [type |-> "Assign",
              params |-> <<<<"account", account(0)>>,
                           <<"owner", readPubkey(data, 4)>>>>]
        ELSE IF instructionType = Num(3)
        THEN [type |-> "CreateAccountWithSeed",
              params |-> <<<<"from", account(0)>>,
                           <<"to", account(1)>>>>]
        ELSE IF instructionType = Num(4)
        THEN [type |-> "AdvanceNonceAccount",
              params |-> <<<<"nonce", account(0)>>,
                           <<"authority", account(2)>>>>]
        ELSE IF instructionType = Num(5)
        THEN [type |-> "WithdrawNonceAccount",
              params |-> <<<<"nonce", account(0)>>,
                           <<"to", account(1)>>,
                           <<"authority", account(4)>>,
                           <<"lamports", readU64(data, 4)>>>>]
        ELSE IF instructionType = Num(6)
        THEN [type |-> "InitializeNonceAccount",
              params |-> <<<<"nonce", account(0)>>,
                           <<"authority", readPubkey(data, 4)>>>>]
        ELSE IF instructionType = Num(7)
        THEN [type |-> "AuthorizeNonceAccount",
              params |-> <<<<"nonce", account(0)>>,
                           <<"authority", account(1)>>>>]
        ELSE [type |-> "Unknown System Instruction",
              params |-> <<<<"instructionType", instructionType>>>>]

\* the try block of decode, lines 19-123: the DecodedInstruction the
\* switch returns, or what bs58.decode or getAccount throws
SystemTry(instruction, accountKeys) ==
    LET data == bs58decode(instruction.data)
    IN  IF HasThrown(data) THEN data
        ELSE LET instructionType == readU32(data.value[1], 0)
                 roles == IF IsNaN(instructionType) THEN <<>>
                          ELSE SystemAccountRoles(instructionType.v)
             IN  IF \E r \in 1..Len(roles) :
                        HasThrown(getAccount(instruction, accountKeys, roles[r]))
                 THEN Throws(TypeError)
                 ELSE Returns(SystemSwitch(instruction, accountKeys, data.value[1],
                                           instructionType))

\* the catch clause left out
DecodeWithoutCatch(outcome, type) == outcome

\* the catch clause of a decoder (SystemProgramDecoder.ts 124-129)
CatchDecode(outcome, type) ==
    IF HasThrown(outcome) THEN Returns(FailedToDecode(type)) ELSE outcome

\* decode, lines 15-130
SystemDecode(instruction, accountKeys) ==
    CatchDecode(SystemTry(instruction, accountKeys), "Unknown System Instruction")

(***************************************************************************)
(* TokenProgramDecoder (src/unnamed/part_004).  A byte read past the end   *)
(* of the payload is undefined.                                            *)
(***************************************************************************)
\* data[i]
ByteAt(data, i) == IF i < Len(data) THEN Num(data[i + 1]) ELSE [k |-> "undefined"]

\* the accounts a case of the switch reads, by instruction type
TokenAccountRoles(instructionType) ==
    IF instructionType = Num(12) THEN <<0, 1, 2, 3>>
    ELSE IF instructionType \in {Num(3), Num(7), Num(8), Num(9), Num(1)} THEN <<0, 1, 2>>
    ELSE IF instructionType = Num(0) THEN <<0>>
    ELSE <<>>

\* the switch of lines 31-112, reached when no getAccount of the case throws
TokenSwitch(instruction, accountKeys, data, instructionType) ==
    LET account(index) == getAccount(instruction, accountKeys, index).value[1]
    IN  IF instructionType = Num(3)
        THEN [type |-> "Transfer",
              params |-> <<<<"source", account(0)>>,
                           <<"destination", account(1)>>,
                           <<"authority", account(2)>>,
                           <<"amount", readU64(data, 1)>>>>]
        ELSE IF instructionType = Num(12)
        THEN [type |-> "TransferChecked",
              params |-> <<<<"source", account(0)>>,
                           <<"mint", account(1)>>,
                           <<"destination", account(2)>>,
                           <<"authority", account(3)>>,
                           <<"amount", readU64(data, 1)>>,
                           <<"decimals", ByteAt(data, 9)>>>>]
        ELSE IF instructionType = Num(7)
        THEN [type |-> "MintTo",
              params |-> <<<<"mint", account(0)>>,
                           <<"account", account(1)>>,
                           <<"authority", account(2)>>,
                           <<"amount", readU64(data, 1)>>>>]
        ELSE IF instructionType = Num(8)
        THEN [type |-> "Burn",
              params |-> <<<<"account", account(0)>>,
                           <<"mint", account(1)>>,
                           <<"authority", account(2)>>,
                           <<"amount", readU64(data, 1)>>>>]
        ELSE IF instructionType = Num(9)
        THEN [type |-> "CloseAccount",
              params |-> <<<<"account", account(0)>>,
                           <<"destination", account(1)>>,
                           <<"authority", account(2)>>>>]
        ELSE IF instructionType = Num(1)
        THEN [type |-> "InitializeAccount",
              params |-> <<<<"account", account(0)>>,
                           <<"mint", account(1)>>,
                           <<"owner", account(2)>>>>]
        ELSE IF instructionType = Num(0)
        THEN [type |-> "InitializeMint",
              params |-> <<<<"mint", account(0)>>,
                           <<"decimals", ByteAt(data, 1)>>>>]
        ELSE [type |-> "Unknown Token Instruction",
              params |-> <<<<"instructionType", instructionType>>>>]

\* the try block of decode, lines 21-112
TokenTry(instruction, accountKeys) ==
    LET data == bs58decode(instruction.data)
    IN  IF HasThrown(data) THEN data
        ELSE LET instructionType == ByteAt(data.value[1], 0)
                 roles == TokenAccountRoles(instructionType)
             IN  IF \E r \in 1..Len(roles) :
                        HasThrown(getAccount(instruction, accountKeys, roles[r]))
                 THEN Throws(TypeError)
                 ELSE Returns(TokenSwitch(instruction, accountKeys, data.value[1],
                                          instructionType))

\* decode, lines 16-119
TokenDecode(instruction, accountKeys) ==
    CatchDecode(TokenTry(instruction, accountKeys), "Unknown Token Instruction")

(***************************************************************************)
(* The block time (TransactionParser.ts 42-58).                            *)
(***************************************************************************)
MaxDateMs == MaxDateSec * 1000

\* if (blockTime): null, undefined, 0 and NaN are falsy
Truthy(blockTime) ==
    /\ blockTime # <<>>
    /\ blockTime[1].k # "NaN"
    /\ ~(blockTime[1].k = "num" /\ blockTime[1].v = 0)

\* new Date(blockTime * 1000).getTime(): NaN outside the time range
DateTime(x) ==
    IF x.k = "num" /\ Abs(x.v * 1000) <= MaxDateMs THEN Num(x.v * 1000) ELSE NaN

parseBlockTime(blockTime, signature) ==
    IF ~Truthy(blockTime) THEN Returns(<<>>)
    ELSE IF IsNaN(DateTime(blockTime[1]))
    THEN Throws(TxLensError("TIMESTAMP_PARSING_ERROR", signature))
    ELSE Returns(<<[ms |-> DateTime(blockTime[1]).v]>>)

(***************************************************************************)
(* parse (TransactionParser.ts 25-112).                                    *)
(***************************************************************************)
\* transaction.signatures[0]
FirstSignature(rawTransaction) ==
    IF rawTransaction.signatures = <<>> THEN Undefined
    ELSE rawTransaction.signatures[1]

\* the catch clause left out: the error leaves parse as it was thrown
RethrowsEveryError(error, rawTransaction) == error

\* the re-throw of lines 99-101 left out
WrapsEveryError(error, rawTransaction) ==
    TxLensError("PARSING_FAILED", FirstSignature(rawTransaction))

\* the catch clause, lines 97-111
CatchParse(error, rawTransaction) ==
    IF error.isTxLensError THEN error
    ELSE TxLensError("PARSING_FAILED", FirstSignature(rawTransaction))

\* the object returned at lines 80-96, from the parts parsed before it
ParsedResult(rawTransaction, blockTime, accountChanges, tokenTransfers, programInteractions) ==
    LET meta == rawTransaction.meta[1]
    IN  [signature |-> FirstSignature(rawTransaction),
         status |-> IF meta.err # <<>> THEN "failed" ELSE "success",
         slot |-> rawTransaction.slot,
         blockTime |-> blockTime,
         accountChanges |-> accountChanges,
         tokenTransfers |-> tokenTransfers,
         programInteractions |-> programInteractions,
         computeUnits |-> [used |-> IF meta.computeUnitsConsumed # <<>>
                                    THEN meta.computeUnitsConsumed[1] ELSE 0,
                           limit |-> 200000],
         fee |-> IF meta.fee # <<>> THEN meta.fee[1] ELSE 0]

\* lines 38-96, reached when meta is present: the returned transaction or
\* the error thrown inside the try block, and the calls made on the decoders
ParseWithMeta(rawTransaction, decs) ==
    LET meta == rawTransaction.meta[1]
        signature == FirstSignature(rawTransaction)
        blockTimeDate == parseBlockTime(rawTransaction.blockTime, signature)
        accountChanges == parseAccountChanges(rawTransaction.accountKeys,
                              meta.preBalances, meta.postBalances)
        tokenTransfers == parseTokenTransfers(rawTransaction.accountKeys,
                              meta.preTokenBalances, meta.postTokenBalances)
        programInteractions == parseProgramInteractions(rawTransaction.accountKeys,
                              rawTransaction.instructions, decs)
    IN  IF HasThrown(blockTimeDate) THEN [out |-> blockTimeDate, calls |-> <<>>]
        ELSE IF HasThrown(accountChanges) THEN [out |-> accountChanges, calls |-> <<>>]
        ELSE IF HasThrown(tokenTransfers) THEN [out |-> tokenTransfers, calls |-> <<>>]
        ELSE [out |-> Returns(ParsedResult(rawTransaction, blockTimeDate.value[1],
                                  accountChanges.value[1], tokenTransfers.value[1],
                                  programInteractions.interactions)),
              calls |-> programInteractions.calls]

\* the meta check made after the block time instead of first
TryParseTimestampFirst(rawTransaction, decs) ==
    LET blockTimeDate == parseBlockTime(rawTransaction.blockTime,
                                        FirstSignature(rawTransaction))
    IN  IF HasThrown(blockTimeDate) THEN [out |-> blockTimeDate, calls |-> <<>>]
        ELSE IF rawTransaction.meta = <<>>
        THEN [out |-> Throws(TxLensError("INCOMPLETE_TRANSACTION_DATA",
                                         FirstSignature(rawTransaction))),
              calls |-> <<>>]
        ELSE ParseWithMeta(rawTransaction, decs)

\* the try block: line 30 first, then the rest
TryParse(rawTransaction, decs) ==
    IF rawTransaction.meta = <<>>
    THEN [out |-> Throws(TxLensError("INCOMPLETE_TRANSACTION_DATA",
                                     FirstSignature(rawTransaction))),
          calls |-> <<>>]
    ELSE ParseWithMeta(rawTransaction, decs)

parse(rawTransaction, decs) ==
    LET try == TryParse(rawTransaction, decs)
    IN  IF HasThrown(try.out)
        THEN [out |-> Throws(CatchParse(try.out.thrown[1], rawTransaction)),
              calls |-> try.calls]
        ELSE try

(***************************************************************************)
(* The inputs: raw transactions (src/unnamed/part_007, RawTransaction) and *)
(* decoder lists.                                                          *)
(***************************************************************************)
SeqsUpTo(S, n) == UNION {[1..m -> S] : m \in 0..n}

Wallet == "9WzDXwBbmkg8ZTbNMqUxvQRAyrZzDsGYdLVL9zYtAWWM"

Mints == {"EPjFWdd5AufqSSqeM2qN1xzybapC8G4wEGGkZwyTDt1v",
          "Es9vMFrzaCERmJfrF4H2FYD4KCoNkY11McCe8BenwNYB"}

Addresses == {SYSTEM_PROGRAM_ID, UnlistedAddress}

\* string[] | Array<{pubkey, signer, writable}>: one shape per list
KeyLists(n) ==
    {[i \in DOMAIN l |-> StringKey(l[i])] : l \in SeqsUpTo(Addresses, n)}
    \cup {[i \in DOMAIN l |-> ObjectKey(l[i])] : l \in SeqsUpTo(Addresses, n)}

StringKeyLists(n) ==
    {[i \in DOMAIN l |-> StringKey(l[i])] : l \in SeqsUpTo(Addresses, n)}

Instruction(programIdIndex) ==
    [programIdIndex |-> programIdIndex, accounts |-> <<>>, data |-> <<>>]

\* program account indices: MaxKeys is past the end of every key list
ProgramIndexes == {0, 1, MaxKeys}

InstructionLists(n) ==
    {[i \in DOMAIN l |-> Instruction(l[i])] : l \in SeqsUpTo(ProgramIndexes, n)}

BalanceLists(n) == SeqsUpTo({0, 1}, n)

\* blockTime: null, NaN, Infinity, and seconds around 0 and around the
\* ends of the Date range
BlockTimes ==
    {<<>>, <<NaN>>, <<Infinity>>}
    \cup {<<Num(v)>> : v \in {-(MaxDateSec + 1), -MaxDateSec, -1, 0, 1,
                              MaxDateSec, MaxDateSec + 1}}

\* uiTokenAmount.amount: "", "5", "12"
AmountStrings == {<<>>, <<"5">>, <<"1", "2">>}

TokenBalance(accountIndex, mint, amount) ==
    [accountIndex |-> accountIndex, mint |-> mint,
     uiTokenAmount |-> [amount |-> amount, decimals |-> 6]]

TokenBalances ==
    {TokenBalance(i, m, a) : i \in {0, 1}, m \in Mints, a \in AmountStrings}

TokenBalanceLists(n) == SeqsUpTo(TokenBalances, n)

Meta(err, pre, post, preToken, postToken) ==
    [err |-> err, fee |-> <<5000>>,
     preBalances |-> pre, postBalances |-> post,
     preTokenBalances |-> preToken, postTokenBalances |-> postToken,
     computeUnitsConsumed |-> <<1400>>]

RawTransaction(blockTime, accountKeys, instructions, signatures, meta) ==
    [slot |-> 250000000, blockTime |-> blockTime,
     accountKeys |-> accountKeys, instructions |-> instructions,
     signatures |-> signatures, meta |-> meta]

\* what a decoder does: the program ids canDecode accepts (owns), those it
\* throws on (faults), and what decode does
DecoderKinds ==
    { [owns |-> {SYSTEM_PROGRAM_ID}, faults |-> {}, dec |-> "returns", type |-> "Transfer"],
      [owns |-> Addresses, faults |-> {}, dec |-> "returns", type |-> "Invoke"],
      [owns |-> Addresses, faults |-> {}, dec |-> "throw", type |-> "Invoke"],
      [owns |-> {}, faults |-> Addresses, dec |-> "returns", type |-> "Invoke"],
      [owns |-> Addresses, faults |-> {}, dec |-> "null", type |-> "Invoke"] }

\* the decoder list given to the constructor; id is the decoder's position
DecoderLists(n) ==
    {[j \in DOMAIN l |-> [id |-> j, owns |-> l[j].owns, faults |-> l[j].faults,
                          dec |-> l[j].dec, type |-> l[j].type]] :
        l \in SeqsUpTo(DecoderKinds, n)}

\* Each family of inputs varies one part of the raw transaction over its
\* whole domain and the other parts over a few values.
TimeInputs ==
    \E bt \in BlockTimes, keys \in KeyLists(1), ixs \in InstructionLists(1),
       sigs \in {<<"SigA">>, <<"SigB", "SigA">>} :
        /\ decoders = <<>>
        /\ \/ raw = RawTransaction(bt, keys, ixs, sigs, <<>>)
           \/ \E err \in {<<>>, <<"InstructionError">>},
                 b \in {<< <<>>, <<>> >>, << <<1>>, <<0>> >>, << <<1>>, <<>> >>} :
                  raw = RawTransaction(bt, keys, ixs, sigs,
                                       <<Meta(err, b[1], b[2], <<>>, <<>>)>>)

BalanceInputs ==
    \E bt \in {<<>>, <<Num(1)>>}, keys \in KeyLists(MaxKeys),
       pre \in BalanceLists(MaxBal), post \in BalanceLists(MaxBal) :
        /\ decoders = <<>>
        /\ raw = RawTransaction(bt, keys, <<>>, <<"SigA">>,
                                <<Meta(<<>>, pre, post, <<>>, <<>>)>>)

TokenInputs ==
    \E keys \in {<<StringKey(Wallet)>>, <<ObjectKey(Wallet), ObjectKey(UnlistedAddress)>>},
       preToken \in TokenBalanceLists(MaxTokenBalances),
       postToken \in TokenBalanceLists(MaxTokenBalances) :
        /\ decoders = <<>>
        /\ raw = RawTransaction(<<Num(1)>>, keys, <<>>, <<"SigA">>,
                                <<Meta(<<>>, <<>>, <<>>, preToken, postToken)>>)

InteractionInputs ==
    \E keys \in StringKeyLists(MaxKeys), ixs \in InstructionLists(MaxInstr),
       decs \in DecoderLists(MaxDecoders) :
        /\ decoders = decs
        /\ raw = RawTransaction(<<>>, keys, ixs, <<"SigA">>,
                                <<Meta(<<>>, <<>>, <<>>, <<>>, <<>>)>>)

(***************************************************************************)
(* The state machine: a parser is constructed over a decoder list and      *)
(* parse is called on a raw transaction.                                   *)
(***************************************************************************)
NotCalled == [called |-> FALSE, thrown |-> <<>>, value |-> <<>>]

\* the find command is not running
NoFind == [pc |-> "idle"]

\* no function over a list of transactions is being called
NoListCall == [does |-> "none", list |-> <<>>, rules |-> <<>>, minScore |-> <<>>,
               tags |-> <<>>, called |-> FALSE, thrown |-> <<>>, value |-> <<>>]

\* no objects are shared between calls in progress
NoHeap == [decoders |-> <<>>, rules |-> <<>>, inputs |-> <<>>]

\* scoreTransaction is not being called
NoScoreCall == [transaction |-> <<>>, rules |-> <<>>, called |-> FALSE,
                thrown |-> <<>>, value |-> <<>>]

\* no decoder is being called on its own
NoDecodeCall == [decoder |-> "none", instruction |-> Instruction(0), accountKeys |-> <<>>,
                 called |-> FALSE, thrown |-> <<>>, decoded |-> <<>>]

Init ==
    /\ TimeInputs \/ BalanceInputs \/ TokenInputs \/ InteractionInputs
    /\ result = NotCalled
    /\ consulted = <<>>
    /\ decodeCall = NoDecodeCall
    /\ scoreCall = NoScoreCall
    /\ find = NoFind
    /\ heap = NoHeap
    /\ frames = <<>>
    /\ listCall = NoListCall

Parse ==
    /\ ~result.called
    /\ LET call == parse(raw, decoders)
       IN  /\ result' = [called |-> TRUE, thrown |-> call.out.thrown,
                         value |-> call.out.value]
           /\ consulted' = call.calls
    /\ UNCHANGED <<decoders, raw, decodeCall, scoreCall, find, heap, frames, listCall>>

Next == Parse

Spec == Init /\ [][Next]_vars

(***************************************************************************)
(* The rule engine (interestingRules.ts).  A quotient of two numbers is    *)
(* kept as the pair of them, and compared and formatted exactly.           *)
(***************************************************************************)
Quotient(num, den) == [num |-> num, den |-> den]

\* q > n
Exceeds(q, n) == q.num > n * q.den

\* q * 100
Times100(q) == [num |-> q.num * 100, den |-> q.den]

\* the digits of n, as many as places
RECURSIVE Padded(_, _)
Padded(n, places) ==
    IF places = 0 THEN ""
    ELSE Padded(n \div 10, places - 1) \o ToString(n % 10)

\* q.toFixed(places): the nearest number with that many decimals, the
\* larger one of two
toFixed(q, places) ==
    LET decimals == (2 * (q.num % q.den) * 10^places + q.den) \div (2 * q.den)
    IN  ToString(q.num \div q.den + decimals \div 10^places)
        \o "." \o Padded(decimals % 10^places, places)

\* n.toLocaleString() in the en-US locale
RECURSIVE toLocaleString(_)
toLocaleString(n) ==
    IF n < 1000 THEN ToString(n)
    ELSE toLocaleString(n \div 1000) \o "," \o Padded(n % 1000, 3)

\* details.decimals === 0
DecimalsIsZero(details) ==
    \E i \in 1..Len(details) : details[i][1] = "decimals" /\ details[i][2] = 0

RECURSIVE SumAbsBalanceChange(_, _)
SumAbsBalanceChange(accountChanges, i) ==
    IF i > Len(accountChanges) THEN 0
    ELSE Abs(accountChanges[i].balanceChange) + SumAbsBalanceChange(accountChanges, i + 1)

\* normalizeTransaction, lines 34-67
normalizeTransaction(tx) ==
    LET programIds == [i \in 1..Len(tx.programInteractions) |->
                          tx.programInteractions[i].programId]
    IN  [totalSolMoved |-> Quotient(SumAbsBalanceChange(tx.accountChanges, 1),
                                    LamportsPerSol),
         programIds |-> programIds,
         hasTokenTransfers |-> Len(tx.tokenTransfers) > 0,
         createsMint |-> \E i \in 1..Len(tx.programInteractions) :
                             tx.programInteractions[i].instructionType = "InitializeMint",
         isNftMint |-> \E i \in 1..Len(tx.programInteractions) :
                           /\ tx.programInteractions[i].instructionType = "InitializeMint"
                           /\ DecimalsIsZero(tx.programInteractions[i].details),
         uniquePrograms |-> Cardinality({programIds[i] : i \in 1..Len(programIds)})]
        @@ tx

\* lines 72-78
WATCHED_PROGRAMS ==
    {"JUP6LkbZbjS1jKKwapdHNy74zcZ3tLUZoi5QNyVTaV4",
     "whirLbMiicVdio4qvUfM5KAg6Ct8VwpYzGff3uctyCc",
     "CAMMCzo5YL8w4VFF8KVHrK22GGUsp5VTaW7grrKgrWqK",
     "So1endDq2YkqhipRh3WViPa8hdiSpxWy6z3Z6tMCpAo",
     "9xQeWvG816bUx9EPjHmaT23yvVM2ZWbrrpZb9PusVFin"}

\* what a rule returns: false, or a RuleResult whose reason may be absent
Abstains == <<>>

RuleResult(score, tag, reason) == <<[score |-> score, tag |-> tag, reason |-> <<reason>>]>>

RuleResultWithoutReason(score, tag) == <<[score |-> score, tag |-> tag, reason |-> <<>>]>>

\* the SOL-moved rule with its thresholds in increasing order
SolMovedRuleSmallestFirst(tx) ==
    IF Exceeds(tx.totalSolMoved, 10)
    THEN RuleResult(4, "medium_move", toFixed(tx.totalSolMoved, 2) \o " SOL moved")
    ELSE IF Exceeds(tx.totalSolMoved, 50)
    THEN RuleResult(7, "large_move", toFixed(tx.totalSolMoved, 2) \o " SOL moved")
    ELSE IF Exceeds(tx.totalSolMoved, 100)
    THEN RuleResult(10, "whale_move", toFixed(tx.totalSolMoved, 2) \o " SOL moved")
    ELSE Abstains

\* lines 85-108
SolMovedRule(tx) ==
    IF Exceeds(tx.totalSolMoved, 100)
    THEN RuleResult(10, "whale_move", toFixed(tx.totalSolMoved, 2) \o " SOL moved")
    ELSE IF Exceeds(tx.totalSolMoved, 50)
    THEN RuleResult(7, "large_move", toFixed(tx.totalSolMoved, 2) \o " SOL moved")
    ELSE IF Exceeds(tx.totalSolMoved, 10)
    THEN RuleResult(4, "medium_move", toFixed(tx.totalSolMoved, 2) \o " SOL moved")
    ELSE Abstains

\* the test !tx.isNftMint left out
NewTokenRuleForEveryMint(tx) ==
    IF tx.createsMint
    THEN RuleResult(8, "new_token", "New token mint created")
    ELSE Abstains

\* lines 111-120
NewTokenRule(tx) ==
    IF tx.createsMint /\ ~tx.isNftMint
    THEN RuleResult(8, "new_token", "New token mint created")
    ELSE Abstains

\* the nft_mint rule without the test of the decimals
NftMintRuleForEveryMint(tx) ==
    IF tx.createsMint THEN RuleResult(6, "nft_mint", "NFT minted") ELSE Abstains

\* lines 123-132
NftMintRule(tx) ==
    IF tx.isNftMint THEN RuleResult(6, "nft_mint", "NFT minted") ELSE Abstains

\* lines 135-152
ComputeRule(tx) ==
    LET computePercent == Times100(Quotient(tx.computeUnits.used, tx.computeUnits.limit))
    IN  IF tx.computeUnits.used > 1000000
        THEN RuleResult(7, "high_compute",
                        toLocaleString(tx.computeUnits.used) \o " compute units")
        ELSE IF Exceeds(computePercent, 80)
        THEN RuleResult(5, "compute_intensive",
                        toFixed(computePercent, 1) \o "% compute used")
        ELSE Abstains

\* lines 155-165: feeSol > 0.01
FeeRule(tx) ==
    LET feeSol == Quotient(tx.fee, LamportsPerSol)
    IN  IF Exceeds(Times100(feeSol), 1)
        THEN RuleResult(6, "high_fee", toFixed(feeSol, 6) \o " SOL fee")
        ELSE Abstains

\* lines 168-179: find gives the first watched program id
DefiRule(tx) ==
    LET watched == {i \in 1..Len(tx.programIds) : tx.programIds[i] \in WATCHED_PROGRAMS}
    IN  IF watched # {}
        THEN LET watchedProgram == tx.programIds[CHOOSE i \in watched :
                                                     \A o \in watched : i <= o]
             IN  RuleResult(5, "defi",
                     "Interacts with " \o (IF watchedProgram \in DOMAIN KNOWN_PROGRAMS
                                           THEN KNOWN_PROGRAMS[watchedProgram]
                                           ELSE "Unknown"))
        ELSE Abstains

\* lines 182-199
TokenTransferRule(tx) ==
    IF Len(tx.tokenTransfers) > 5
    THEN RuleResult(6, "multi_token", ToString(Len(tx.tokenTransfers)) \o " token transfers")
    ELSE IF Len(tx.tokenTransfers) > 0
    THEN RuleResult(3, "token_transfer",
                    ToString(Len(tx.tokenTransfers)) \o " token transfer(s)")
    ELSE Abstains

\* lines 202-219
ProgramsRule(tx) ==
    IF tx.uniquePrograms > 5
    THEN RuleResult(7, "complex", ToString(tx.uniquePrograms) \o " different programs")
    ELSE IF tx.uniquePrograms > 3
    THEN RuleResult(4, "multi_program", ToString(tx.uniquePrograms) \o " different programs")
    ELSE Abstains

\* lines 222-229
FailedRule(tx) ==
    IF tx.status = "failed" THEN RuleResult(5, "failed", "Transaction failed")
    ELSE Abstains

\* A rule is a function of the normalized transaction.  A rule of
\* DEFAULT_RULES is named by its position there; any other rule is given by
\* what it does for the transaction at hand: it returns false, returns a
\* RuleResult or throws.
DefaultRule(position) == [position |-> position, does |-> "default", returns |-> Abstains]

AbstainingRule == [position |-> 0, does |-> "return", returns |-> Abstains]

MatchingRule(ruleResult) == [position |-> 0, does |-> "return", returns |-> ruleResult]

ThrowingRule == [position |-> 0, does |-> "throw", returns |-> Abstains]

\* lines 83-230
DEFAULT_RULES == [position \in 1..9 |-> DefaultRule(position)]

\* rule(normalized), line 254
ApplyRule(rule, tx) ==
    IF rule.does = "throw" THEN Throws(Error)
    ELSE IF rule.does = "return" THEN Returns(rule.returns)
    ELSE Returns(CASE rule.position = 1 -> SolMovedRule(tx)
                   [] rule.position = 2 -> NewTokenRule(tx)
                   [] rule.position = 3 -> NftMintRule(tx)
                   [] rule.position = 4 -> ComputeRule(tx)
                   [] rule.position = 5 -> FeeRule(tx)
                   [] rule.position = 6 -> DefiRule(tx)
                   [] rule.position = 7 -> TokenTransferRule(tx)
                   [] rule.position = 8 -> ProgramsRule(tx)
                   [] rule.position = 9 -> FailedRule(tx))

\* the loop of lines 253-258: the results pushed, or what a rule threw
RECURSIVE RulesLoop(_, _, _, _)
RulesLoop(rules, i, normalized, results) ==
    IF i > Len(rules) THEN Returns(results)
    ELSE LET ruleResult == ApplyRule(rules[i], normalized)
         IN  IF HasThrown(ruleResult) THEN ruleResult
             ELSE RulesLoop(rules, i + 1, normalized, results \o ruleResult.value[1])

RECURSIVE SumScores(_, _)
SumScores(results, i) ==
    IF i > Len(results) THEN 0 ELSE results[i].score + SumScores(results, i + 1)

\* r.reason || r.tag: an absent reason and the empty string are falsy
ReasonOrTag(r) == IF r.reason # <<>> /\ r.reason[1] # "" THEN r.reason[1] ELSE r.tag

\* a sort that puts a result before the earlier results of the same score
InsertBeforeEqual(sorted, r) ==
    LET before == Cardinality({n \in 1..Len(sorted) : sorted[n].score > r.score})
    IN  SubSeq(sorted, 1, before) \o <<r>> \o SubSeq(sorted, before + 1, Len(sorted))

\* Array.prototype.sort is stable: with (a, b) => b.score - a.score a
\* result goes after the earlier results whose score is not smaller
InsertByScore(sorted, r) ==
    LET before == Cardinality({n \in 1..Len(sorted) : sorted[n].score >= r.score})
    IN  SubSeq(sorted, 1, before) \o <<r>> \o SubSeq(sorted, before + 1, Len(sorted))

RECURSIVE SortByScore(_, _, _)
SortByScore(results, i, sorted) ==
    IF i > Len(results) THEN sorted
    ELSE SortByScore(results, i + 1, InsertByScore(sorted, results[i]))

\* tags in the order of the results sorted by score
TagsOfSorted(results) ==
    LET sorted == SortByScore(results, 1, <<>>)
    IN  [n \in 1..Len(sorted) |-> sorted[n].tag]

\* line 265
TagsOf(results) == [n \in 1..Len(results) |-> results[n].tag]

\* the score of the first result alone
ScoreOfFirstResult(results) == IF results = <<>> THEN 0 ELSE results[1].score

\* an empty result list scored as one
ScoreOfNoResult(results) == IF results = <<>> THEN 1 ELSE SumScores(results, 1)

\* line 262
TotalScoreOf(results) == SumScores(results, 1)

\* lines 260-275: the scored transaction made of the results pushed
ScoredResult(tx, results) ==
    LET sorted == SortByScore(results, 1, <<>>)
    IN  [transaction |-> tx,
         totalScore |-> TotalScoreOf(results),
         tags |-> TagsOf(results),
         reasons |-> [n \in 1..Len(results) |-> ReasonOrTag(results[n])],
         topTag |-> IF sorted # <<>> THEN sorted[1].tag ELSE "unknown"]

\* scoreTransaction, lines 246-276
scoreTransaction(tx, rules) ==
    LET normalized == normalizeTransaction(tx)
        loop == RulesLoop(rules, 1, normalized, <<>>)
    IN  IF HasThrown(loop) THEN loop
        ELSE Returns(ScoredResult(tx, loop.value[1]))

\* a sort that keeps the list as it is
KeepsOrder(sorted, scored) == Append(sorted, scored)

\* the stable sort of line 287, (a, b) => b.totalScore - a.totalScore
InsertByTotalScore(sorted, scored) ==
    LET before == Cardinality({n \in 1..Len(sorted) :
                                  sorted[n].totalScore >= scored.totalScore})
    IN  SubSeq(sorted, 1, before) \o <<scored>> \o SubSeq(sorted, before + 1, Len(sorted))

\* scoreTransactions, lines 281-288: the sorted list, or what a rule threw
RECURSIVE ScoreEach(_, _, _, _)
ScoreEach(transactions, rules, i, sorted) ==
    IF i > Len(transactions) THEN Returns(sorted)
    ELSE LET scored == scoreTransaction(transactions[i], rules)
         IN  IF HasThrown(scored) THEN scored
             ELSE ScoreEach(transactions, rules, i + 1,
                            InsertByTotalScore(sorted, scored.value[1]))

scoreTransactions(transactions, rules) == ScoreEach(transactions, rules, 1, <<>>)

\* minScore: number = 5, line 295
DefaultMinScore == 5

\* a filter that keeps the scores above minScore only
filterAboveScore(scored, minScore) ==
    SelectSeq(scored, LAMBDA s : s.totalScore > minScore)

\* filterByScore, lines 293-298
filterByScore(scored, minScore) ==
    SelectSeq(scored, LAMBDA s : s.totalScore >= minScore)

\* filterByTags, lines 303-308
filterByTags(scored, tags) ==
    SelectSeq(scored, LAMBDA s : \E k \in 1..Len(s.tags), t \in 1..Len(tags) :
                                     s.tags[k] = tags[t])

(***************************************************************************)
(* The find command (cli.ts 137-291, transactionFinder.ts).                *)
(***************************************************************************)
\* filterInterestingTransactions, transactionFinder.ts 38-56
filterInterestingTransactions(transactions, criteria) ==
    LET successful == IF criteria.onlySuccessful
                      THEN SelectSeq(transactions, LAMBDA t : t.err = <<>>)
                      ELSE transactions
    IN  IF criteria.onlyFailed
        THEN SelectSeq(successful, LAMBDA t : t.err # <<>>)
        ELSE successful

\* cli.ts 208-216: the parsed transactions scored, then filtered by score
\* and, when tags are given, by tag; or what a rule threw
FindPipeline(parsedTransactions, minScore, tag) ==
    LET all == scoreTransactions(parsedTransactions, DEFAULT_RULES)
    IN  IF HasThrown(all) THEN all
        ELSE LET byScore == filterByScore(all.value[1], minScore)
             IN  Returns(IF tag # <<>> THEN filterByTags(byScore, tag) ELSE byScore)

\* the catch of cli.ts 201-204 with break for continue: the index the loop
\* goes on from after a failure at index i of n transactions
BreaksAfterFailure(i, n) == n

\* the catch of cli.ts 201-204: continue
ContinuesAfterFailure(i, n) == i + 1

(***************************************************************************)
(* The state machine of a decoder on its own: SystemProgramDecoder.decode  *)
(* is called on an instruction and an account list.                        *)
(***************************************************************************)
\* the eight bytes of an amount, least significant first
AmountBytes ==
    {<<a, b, m, m, m, m, g, h>> :
        a \in {0, 1, 255}, b \in {0, 4, 255}, m \in {0, 255},
        g \in {0, 31, 32, 255}, h \in {0, 1, 128, 255}}

\* instruction.accounts: MaxKeys is past the end of every key list
AccountIndexLists == SeqsUpTo({0, 1, MaxKeys}, 2)

\* the first len bytes of a payload that starts with a 4-byte
\* little-endian instruction type and goes on with ones
PayloadOf(low, high, len) ==
    [n \in 1..len |-> IF n = 1 THEN low ELSE IF n = 2 THEN high
                       ELSE IF n <= 4 THEN 0 ELSE 1]

SystemInstruction(accounts, data) ==
    [programIdIndex |-> 0, accounts |-> accounts, data |-> data]

\* a call of decode that has not been made
DecodeCall(decoder, instruction, accountKeys) ==
    [decoder |-> decoder, instruction |-> instruction, accountKeys |-> accountKeys,
     called |-> FALSE, thrown |-> <<>>, decoded |-> <<>>]

\* transfers of every amount between two resolvable accounts
TransferInputs ==
    \E amount \in AmountBytes,
       keys \in {<<StringKey(Wallet), StringKey(UnlistedAddress)>>,
                 <<ObjectKey(UnlistedAddress), ObjectKey(Wallet)>>},
       accounts \in {<<0, 1>>, <<1, 0>>, <<1, 1>>} :
        decodeCall = DecodeCall("system",
                                SystemInstruction(accounts,
                                                  Base58Data(<<2, 0, 0, 0>> \o amount)),
                                keys)

\* every instruction type, payload length and account list
ShapeInputs ==
    \E low \in 0..9, high \in {0, 1}, len \in 0..MaxPayload,
       keys \in KeyLists(MaxKeys), accounts \in AccountIndexLists :
        \/ decodeCall = DecodeCall("system",
                                   SystemInstruction(accounts,
                                       Base58Data(PayloadOf(low, high, len))),
                                   keys)
        \/ decodeCall = DecodeCall("system",
                                   SystemInstruction(accounts, NotBase58Data), keys)

\* the first len bytes of a token payload: the instruction type, then ones
TokenPayloadOf(instructionType, len) ==
    [n \in 1..len |-> IF n = 1 THEN instructionType ELSE 1]

\* instruction.accounts of a token instruction: up to four positions, some
\* past the end of every key list
TokenAccountIndexLists ==
    {<<>>, <<0, 1>>, <<0, 1, 0>>, <<1, 0, 0, 1>>, <<0, MaxKeys, 1>>, <<0, 1, 0, MaxKeys>>}

\* the largest instruction type of the token inputs: every case of the
\* switch of TokenProgramDecoder and some types outside it
MaxTokenType == 13

\* every token instruction type, payload length and account list
TokenShapeInputs ==
    \E instructionType \in 0..MaxTokenType, len \in 0..MaxPayload,
       keys \in KeyLists(MaxKeys), accounts \in TokenAccountIndexLists :
        \/ decodeCall = DecodeCall("token",
                                   SystemInstruction(accounts,
                                       Base58Data(TokenPayloadOf(instructionType, len))),
                                   keys)
        \/ decodeCall = DecodeCall("token",
                                   SystemInstruction(accounts, NotBase58Data), keys)

\* the parser is not used
NoParse ==
    /\ decoders = <<>>
    /\ raw = RawTransaction(<<>>, <<>>, <<>>, <<>>, <<>>)
    /\ result = NotCalled
    /\ consulted = <<>>

DecodeInit ==
    /\ TransferInputs \/ ShapeInputs \/ TokenShapeInputs
    /\ NoParse
    /\ scoreCall = NoScoreCall
    /\ find = NoFind
    /\ heap = NoHeap
    /\ frames = <<>>
    /\ listCall = NoListCall

\* the outcome of a call recorded
Decoded(outcome) ==
    /\ decodeCall' = [decodeCall EXCEPT !.called = TRUE,
                                        !.thrown = outcome.thrown,
                                        !.decoded = outcome.value]
    /\ UNCHANGED <<decoders, raw, result, consulted, scoreCall, find, heap, frames, listCall>>

\* SystemProgramDecoder.decode is called
Decode ==
    /\ ~decodeCall.called
    /\ decodeCall.decoder = "system"
    /\ Decoded(SystemDecode(decodeCall.instruction, decodeCall.accountKeys))

\* TokenProgramDecoder.decode is called
DecodeToken ==
    /\ ~decodeCall.called
    /\ decodeCall.decoder = "token"
    /\ Decoded(TokenDecode(decodeCall.instruction, decodeCall.accountKeys))

DecodeNext == Decode \/ DecodeToken

DecodeSpec == DecodeInit /\ [][DecodeNext]_vars

(***************************************************************************)
(* The state machine of the rule engine: scoreTransaction is called on a   *)
(* parsed transaction and a rule list.                                     *)
(***************************************************************************)
\* a move of lamports in one account change, or in two
AccountChangesMoving(lamports, split) ==
    IF lamports = 0 THEN <<>>
    ELSE IF split /\ lamports > 1
    THEN <<[address |-> Wallet, balanceChange |-> -(lamports - lamports \div 2),
            isFeePayer |-> TRUE],
           [address |-> UnlistedAddress, balanceChange |-> lamports \div 2,
            isFeePayer |-> FALSE]>>
    ELSE <<[address |-> Wallet, balanceChange |-> -lamports, isFeePayer |-> TRUE]>>

\* the amounts around the thresholds of 10, 50 and 100 SOL
LamportsMoved ==
    {0, 1, 10 * LamportsPerSol, 10 * LamportsPerSol + 1, 50 * LamportsPerSol,
     50 * LamportsPerSol + 1, 100 * LamportsPerSol, 100 * LamportsPerSol + 1,
     150 * LamportsPerSol}

\* the fees around 0.01 SOL
Fees == {0, LamportsPerSol \div 100, LamportsPerSol \div 100 + 1, LamportsPerSol}

\* the compute units around 80% of the limit and around 1_000_000
ComputeUnitsUsed == {1400, 160000, 160001, 1000000, 1000001}

TokenTransfersOf(n) ==
    [i \in 1..n |-> [mint |-> "EPjFWdd5AufqSSqeM2qN1xzybapC8G4wEGGkZwyTDt1v",
                     amount |-> Num(i), decimals |-> 6,
                     from |-> "unknown", to |-> Wallet]]

\* programs that are not watched
UnwatchedPrograms ==
    <<SYSTEM_PROGRAM_ID, UnlistedAddress,
      "ComputeBudget111111111111111111111111111111",
      "ATokenGPvbdGVxr1b2hvZbsiqW5xWH25efTNsLJA8knL",
      "Stake11111111111111111111111111111111111111",
      "Vote111111111111111111111111111111111111111">>

Interaction(programId, instructionType, details) ==
    [programId |-> programId, programName |-> getProgramName(programId),
     instructionType |-> instructionType, details |-> details]

\* n instructions of n programs, or of one program
InteractionsOf(n, distinct) ==
    [i \in 1..n |-> Interaction(UnwatchedPrograms[IF distinct THEN i ELSE 1],
                                "Unknown", <<>>)]

\* the instructions that make a transaction a mint, a DeFi one or neither
SignalInteractions ==
    {<<>>,
     <<Interaction(TOKEN_PROGRAM_ID, "InitializeMint", <<<<"decimals", 6>>>>)>>,
     <<Interaction(TOKEN_PROGRAM_ID, "InitializeMint", <<<<"decimals", 0>>>>)>>,
     <<Interaction(TOKEN_PROGRAM_ID, "InitializeMint", <<<<"decimals", 6>>>>),
       Interaction(TOKEN_PROGRAM_ID, "InitializeMint", <<<<"decimals", 0>>>>)>>,
     <<Interaction(TOKEN_PROGRAM_ID, "InitializeMint", <<>>)>>,
     <<Interaction("CAMMCzo5YL8w4VFF8KVHrK22GGUsp5VTaW7grrKgrWqK", "Unknown", <<>>),
       Interaction("JUP6LkbZbjS1jKKwapdHNy74zcZ3tLUZoi5QNyVTaV4", "Unknown", <<>>)>>}

ParsedTransaction(status, accountChanges, tokenTransfers, programInteractions, used, fee) ==
    [signature |-> "SigA", status |-> status, slot |-> 250000000,
     blockTime |-> <<>>, accountChanges |-> accountChanges,
     tokenTransfers |-> tokenTransfers, programInteractions |-> programInteractions,
     computeUnits |-> [used |-> used, limit |-> 200000], fee |-> fee]

\* a transaction with no signal
QuietTransaction == ParsedTransaction("success", <<>>, <<>>, <<>>, 1400, 0)

\* rules other than those of DEFAULT_RULES
OtherRules ==
    {AbstainingRule, ThrowingRule,
     MatchingRule(RuleResult(5, "first_five", "five")),
     MatchingRule(RuleResultWithoutReason(5, "second_five")),
     MatchingRule(RuleResult(7, "seven", "")),
     MatchingRule(RuleResult(3, "three", "three"))}

\* DEFAULT_RULES on transactions that vary the SOL moved, the fee and the
\* compute units
AmountInputs ==
    \E lamports \in LamportsMoved, split \in BOOLEAN, fee \in Fees,
       used \in ComputeUnitsUsed, status \in {"success", "failed"} :
        scoreCall = [transaction |-> ParsedTransaction(status,
                                         AccountChangesMoving(lamports, split),
                                         <<>>, <<>>, used, fee),
                     rules |-> DEFAULT_RULES, called |-> FALSE,
                     thrown |-> <<>>, value |-> <<>>]

\* DEFAULT_RULES on transactions that vary the token transfers and the
\* instructions
ContentInputs ==
    \E lamports \in {0, 150 * LamportsPerSol}, transfers \in {0, 1, 5, 6},
       programs \in {0, 1, 3, 4, 5, 6}, distinct \in BOOLEAN,
       signal \in SignalInteractions :
        scoreCall = [transaction |-> ParsedTransaction("success",
                                         AccountChangesMoving(lamports, FALSE),
                                         TokenTransfersOf(transfers),
                                         InteractionsOf(programs, distinct) \o signal,
                                         1400, 0),
                     rules |-> DEFAULT_RULES, called |-> FALSE,
                     thrown |-> <<>>, value |-> <<>>]

\* every list of other rules, alone and after DEFAULT_RULES
RuleListInputs ==
    \E rules \in SeqsUpTo(OtherRules, MaxRules), defaults \in BOOLEAN,
       lamports \in {0, 150 * LamportsPerSol} :
        scoreCall = [transaction |-> ParsedTransaction("failed",
                                         AccountChangesMoving(lamports, FALSE),
                                         <<>>, <<>>, 1400, 0),
                     rules |-> IF defaults THEN DEFAULT_RULES \o rules ELSE rules,
                     called |-> FALSE, thrown |-> <<>>, value |-> <<>>]

\* one rule of DEFAULT_RULES on its own
SingleRuleInputs ==
    \E position \in 1..9, lamports \in LamportsMoved, split \in BOOLEAN,
       fee \in {0, LamportsPerSol}, transfers \in {0, 6},
       signal \in SignalInteractions :
        scoreCall = [transaction |-> ParsedTransaction("failed",
                                         AccountChangesMoving(lamports, split),
                                         TokenTransfersOf(transfers), signal, 1400, fee),
                     rules |-> <<DEFAULT_RULES[position]>>, called |-> FALSE,
                     thrown |-> <<>>, value |-> <<>>]

\* DEFAULT_RULES on transactions that carry any combination of the signals
\* of the nine rules, up to all of them at their highest score
CombinedInputs ==
    \E status \in {"success", "failed"}, lamports \in {0, 150 * LamportsPerSol},
       fee \in {0, LamportsPerSol}, used \in {1400, 160001, 1000001},
       transfers \in {0, 1, 6}, programs \in {0, 4, 6},
       mint \in {<<>>,
                 <<Interaction(TOKEN_PROGRAM_ID, "InitializeMint", <<<<"decimals", 6>>>>)>>,
                 <<Interaction(TOKEN_PROGRAM_ID, "InitializeMint", <<<<"decimals", 0>>>>)>>},
       defi \in {<<>>,
                 <<Interaction("JUP6LkbZbjS1jKKwapdHNy74zcZ3tLUZoi5QNyVTaV4",
                               "Unknown", <<>>)>>} :
        scoreCall = [transaction |-> ParsedTransaction(status,
                                         AccountChangesMoving(lamports, FALSE),
                                         TokenTransfersOf(transfers),
                                         InteractionsOf(programs, TRUE) \o mint \o defi,
                                         used, fee),
                     rules |-> DEFAULT_RULES, called |-> FALSE,
                     thrown |-> <<>>, value |-> <<>>]

ScoreInit ==
    /\ \/ AmountInputs \/ ContentInputs \/ RuleListInputs \/ SingleRuleInputs
       \/ CombinedInputs
    /\ NoParse
    /\ decodeCall = NoDecodeCall
    /\ find = NoFind
    /\ heap = NoHeap
    /\ frames = <<>>
    /\ listCall = NoListCall

Score ==
    /\ ~scoreCall.called
    /\ LET call == scoreTransaction(scoreCall.transaction, scoreCall.rules)
       IN  scoreCall' = [scoreCall EXCEPT !.called = TRUE, !.thrown = call.thrown,
                                          !.value = call.value]
    /\ UNCHANGED <<decoders, raw, result, consulted, decodeCall, find, heap, frames, listCall>>

ScoreNext == Score

ScoreSpec == ScoreInit /\ [][ScoreNext]_vars

(***************************************************************************)
(* The state machine of the find command: the recent transactions of an    *)
(* address are listed, filtered, fetched and parsed one after the other,   *)
(* scored and filtered again.  What the chain holds for a signature is     *)
(* fixed; whether a request fails is not.                                  *)
(***************************************************************************)
\* what the chain holds for a signature: a transaction that parses
\* ("moves" SOL, or "failed"), one whose balance lists differ in length,
\* one whose block time is out of range, or nothing
ChainKinds == {"moves", "failed", "balances", "time", "missing"}

FindSignatures == [n \in 1..MaxBatch |-> "Sig" \o ToString(n)]

\* meta with a fee of 0.01 SOL
MetaOnChain(err, pre, post) ==
    [Meta(err, pre, post, <<>>, <<>>) EXCEPT !.fee = <<LamportsPerSol \div 100>>]

\* connection.getTransaction as RpcClient.transformResponse returns it
RawOnChain(signature, kind) ==
    LET keys == <<StringKey(Wallet), StringKey(UnlistedAddress)>>
        lamports == 60 * LamportsPerSol
    IN  IF kind = "moves"
        THEN RawTransaction(<<Num(1)>>, keys, <<Instruction(1)>>, <<signature>>,
                            <<MetaOnChain(<<>>, <<lamports, 0>>, <<0, lamports>>)>>)
        ELSE IF kind = "failed"
        THEN RawTransaction(<<Num(1)>>, keys, <<>>, <<signature>>,
                            <<MetaOnChain(<<"InstructionError">>, <<1, 0>>, <<1, 0>>)>>)
        ELSE IF kind = "balances"
        THEN RawTransaction(<<Num(1)>>, keys, <<>>, <<signature>>,
                            <<MetaOnChain(<<>>, <<1, 0>>, <<1>>)>>)
        ELSE RawTransaction(<<Num(MaxDateSec + 1)>>, keys, <<>>, <<signature>>,
                            <<MetaOnChain(<<>>, <<1, 0>>, <<1, 0>>)>>)

\* rpcClient.getTransaction, RpcClient.ts 154-207, when the request gets
\* its answer: a missing transaction is an error
getTransaction(signature, kind) ==
    IF kind = "missing" THEN Throws(TxLensError("TRANSACTION_NOT_FOUND", signature))
    ELSE Returns(RawOnChain(signature, kind))

\* cli.ts 192: [new TokenProgramDecoder(), new SystemProgramDecoder()],
\* each by the program it owns
FindDecoders ==
    <<[id |-> 1, owns |-> {TOKEN_PROGRAM_ID}, faults |-> {}, dec |-> "returns",
       type |-> "Unknown Token Instruction"],
      [id |-> 2, owns |-> {SYSTEM_PROGRAM_ID}, faults |-> {}, dec |-> "returns",
       type |-> "Unknown System Instruction"]>>

\* getRecentTransactions returned a list; the options of the command
FindInit ==
    /\ \E kinds \in SeqsUpTo(ChainKinds, MaxBatch),
          successful \in BOOLEAN, failed \in BOOLEAN,
          minScore \in {0, 5}, tag \in {<<>>, <<"failed">>} :
           find = [pc |-> "listed",
                   chain |-> kinds,
                   transactions |-> [n \in 1..Len(kinds) |->
                                        [signature |-> FindSignatures[n],
                                         err |-> IF kinds[n] = "failed"
                                                 THEN <<"InstructionError">> ELSE <<>>]],
                   options |-> [successful |-> successful, failed |-> failed,
                                minScore |-> minScore, tag |-> tag],
                   filtered |-> <<>>, index |-> 0, visited |-> <<>>,
                   parsedTransactions |-> <<>>, handed |-> <<>>, scored |-> <<>>,
                   exit |-> <<>>]
    /\ NoParse
    /\ decodeCall = NoDecodeCall
    /\ scoreCall = NoScoreCall
    /\ heap = NoHeap
    /\ frames = <<>>
    /\ listCall = NoListCall

\* cli.ts 172-188: nothing found, or nothing left by the filter, ends the
\* command; else the loop starts
Filter ==
    /\ find.pc = "listed"
    /\ LET filtered == filterInterestingTransactions(find.transactions,
                           [onlySuccessful |-> find.options.successful,
                            onlyFailed |-> find.options.failed])
       IN  find' = IF find.transactions = <<>> \/ filtered = <<>>
                   THEN [find EXCEPT !.pc = "exited", !.exit = <<0>>,
                                     !.filtered = filtered]
                   ELSE [find EXCEPT !.pc = "loop", !.filtered = filtered]
    /\ UNCHANGED <<decoders, raw, result, consulted, decodeCall, scoreCall, heap, frames, listCall>>

\* the position in the chain of the transaction at index i of filtered
ChainPosition(i) ==
    CHOOSE n \in 1..Len(find.transactions) :
        find.transactions[n].signature = find.filtered[i + 1].signature

\* cli.ts 195-205, one pass of the loop whose request fails or finds no
\* transaction: the catch goes on with the next one
FetchFails ==
    /\ find.pc = "loop"
    /\ find.index < Len(find.filtered)
    /\ find' = [find EXCEPT
                   !.index = ContinuesAfterFailure(find.index, Len(find.filtered)),
                   !.visited = Append(@, [signature |-> find.filtered[find.index + 1].signature,
                                          fetched |-> FALSE])]
    /\ UNCHANGED <<decoders, raw, result, consulted, decodeCall, scoreCall, heap, frames, listCall>>

\* cli.ts 195-205, one pass of the loop whose request is answered: the
\* transaction is parsed, and pushed unless parse throws
FetchAndParse ==
    /\ find.pc = "loop"
    /\ find.index < Len(find.filtered)
    /\ LET signature == find.filtered[find.index + 1].signature
           rawTx == getTransaction(signature, find.chain[ChainPosition(find.index)])
           parsed == IF HasThrown(rawTx) THEN rawTx
                     ELSE parse(rawTx.value[1], FindDecoders).out
       IN  find' = IF HasThrown(parsed)
                   THEN [find EXCEPT
                            !.index = ContinuesAfterFailure(find.index, Len(find.filtered)),
                            !.visited = Append(@, [signature |-> signature,
                                                   fetched |-> ~HasThrown(rawTx)])]
                   ELSE [find EXCEPT
                            !.index = find.index + 1,
                            !.visited = Append(@, [signature |-> signature,
                                                   fetched |-> TRUE]),
                            !.parsedTransactions = Append(@, parsed.value[1])]
    /\ UNCHANGED <<decoders, raw, result, consulted, decodeCall, scoreCall, heap, frames, listCall>>

\* cli.ts 207: the loop is over and scoreTransactions is called on the
\* parsed transactions
HandOver ==
    /\ find.pc = "loop"
    /\ find.index >= Len(find.filtered)
    /\ find' = [find EXCEPT !.pc = "score", !.handed = <<find.parsedTransactions>>]
    /\ UNCHANGED <<decoders, raw, result, consulted, decodeCall, scoreCall, heap, frames, listCall>>

\* cli.ts 207-222: the transactions handed over are scored and filtered
ScoreParsed ==
    /\ find.pc = "score"
    /\ LET scored == FindPipeline(find.handed[1], find.options.minScore, find.options.tag)
       IN  find' = IF HasThrown(scored)
                   THEN [find EXCEPT !.pc = "exited", !.exit = <<1>>]
                   ELSE IF scored.value[1] = <<>>
                   THEN [find EXCEPT !.pc = "exited", !.exit = <<0>>]
                   ELSE [find EXCEPT !.pc = "report", !.scored = scored.value[1]]
    /\ UNCHANGED <<decoders, raw, result, consulted, decodeCall, scoreCall, heap, frames, listCall>>

\* cli.ts 224-281: the scored list is printed
Report ==
    /\ find.pc = "report"
    /\ find' = [find EXCEPT !.pc = "exited", !.exit = <<0>>]
    /\ UNCHANGED <<decoders, raw, result, consulted, decodeCall, scoreCall, heap, frames, listCall>>

FindNext == Filter \/ FetchFails \/ FetchAndParse \/ HandOver \/ ScoreParsed \/ Report

\* the steps up to the call of scoreTransactions
FindLoop == Filter \/ FetchFails \/ FetchAndParse \/ HandOver

\* every request is answered or fails, and the code between two requests
\* runs to its end
FindSpec == FindInit /\ [][FindNext]_vars /\ WF_vars(FindLoop)

(***************************************************************************)
(* Calls in progress at the same time.  heap holds the objects the calls   *)
(* share: the decoder list of the parser, the rule list and the            *)
(* transactions given as inputs.  Each call has a frame with its local     *)
(* variables; a step of a call is one loop iteration or the code between   *)
(* two loops, and reads the shared lists as they are when it runs.  given  *)
(* records the objects as they were when the call was made.                *)
(***************************************************************************)
Frame(does, input, objects) ==
    [does |-> does, input |-> input, pc |-> "called", position |-> 0,
     locals |-> <<>>, out |-> <<>>,
     given |-> [input |-> objects.inputs[input], decoders |-> objects.decoders,
                rules |-> objects.rules]]

\* parse throws error from inside its try block: the catch of lines 97-111
ParseThrows(frame, error, rawTransaction) ==
    [frame EXCEPT !.pc = "returned",
                  !.out = <<Throws(CatchParse(error, rawTransaction))>>]

\* TransactionParser.ts 28-70: the meta check, the block time, the account
\* changes and the token transfers
ParseEnterStep(objects, frame) ==
    LET rawTransaction == objects.inputs[frame.input]
        signature == FirstSignature(rawTransaction)
    IN  IF rawTransaction.meta = <<>>
        THEN [heap |-> objects,
              frame |-> ParseThrows(frame, TxLensError("INCOMPLETE_TRANSACTION_DATA",
                                                       signature), rawTransaction)]
        ELSE LET meta == rawTransaction.meta[1]
                 blockTimeDate == parseBlockTime(rawTransaction.blockTime, signature)
                 accountChanges == parseAccountChanges(rawTransaction.accountKeys,
                                       meta.preBalances, meta.postBalances)
                 tokenTransfers == parseTokenTransfers(rawTransaction.accountKeys,
                                       meta.preTokenBalances, meta.postTokenBalances)
             IN  [heap |-> objects,
                  frame |->
                     IF HasThrown(blockTimeDate)
                     THEN ParseThrows(frame, blockTimeDate.thrown[1], rawTransaction)
                     ELSE IF HasThrown(accountChanges)
                     THEN ParseThrows(frame, accountChanges.thrown[1], rawTransaction)
                     ELSE IF HasThrown(tokenTransfers)
                     THEN ParseThrows(frame, tokenTransfers.thrown[1], rawTransaction)
                     ELSE [frame EXCEPT
                              !.pc = "instructions",
                              !.locals = [blockTime |-> blockTimeDate.value[1],
                                          accountChanges |-> accountChanges.value[1],
                                          tokenTransfers |-> tokenTransfers.value[1],
                                          acc |-> [interactions |-> <<>>, calls |-> <<>>]]]]

\* the frame after one iteration of the loop of lines 124-154, which reads
\* this.decoders
AfterInstruction(objects, frame) ==
    LET rawTransaction == objects.inputs[frame.input]
    IN  [frame EXCEPT
            !.position = @ + 1,
            !.locals.acc = InteractionStep(rawTransaction.accountKeys,
                               rawTransaction.instructions[frame.position + 1],
                               frame.position, objects.decoders, @)]

\* an iteration that moves the decoder it consulted last to the front of
\* this.decoders
ParseInstructionStepMovingToFront(objects, frame) ==
    LET after == AfterInstruction(objects, frame)
        calls == after.locals.acc.calls
        decs == objects.decoders
    IN  [heap |-> IF Len(calls) = Len(frame.locals.acc.calls) THEN objects
                  ELSE LET last == CHOOSE j \in 1..Len(decs) :
                                       decs[j].id = calls[Len(calls)].decoder
                       IN  [objects EXCEPT !.decoders =
                               <<decs[last]>> \o SubSeq(decs, 1, last - 1)
                                              \o SubSeq(decs, last + 1, Len(decs))],
         frame |-> after]

\* one iteration of the loop of lines 124-154: interactions.push on the
\* array of this call, nothing else written
ParseInstructionStep(objects, frame) ==
    [heap |-> objects, frame |-> AfterInstruction(objects, frame)]

\* lines 80-96: the return
ParseReturnStep(objects, frame) ==
    [heap |-> objects,
     frame |-> [frame EXCEPT
                   !.pc = "returned",
                   !.out = <<Returns(ParsedResult(objects.inputs[frame.input],
                                 frame.locals.blockTime, frame.locals.accountChanges,
                                 frame.locals.tokenTransfers,
                                 frame.locals.acc.interactions))>>]]

\* interestingRules.ts 250-251: normalizeTransaction makes a new object,
\* results is a new array
ScoreEnterStep(objects, frame) ==
    [heap |-> objects,
     frame |-> [frame EXCEPT
                   !.pc = "rules", !.position = 1,
                   !.locals = [normalized |-> normalizeTransaction(objects.inputs[frame.input]),
                               results |-> <<>>]]]

\* one iteration of the loop of lines 253-258, which reads rules
ScoreRuleStep(objects, frame) ==
    LET ruleResult == ApplyRule(objects.rules[frame.position], frame.locals.normalized)
    IN  [heap |-> objects,
         frame |-> IF HasThrown(ruleResult)
                   THEN [frame EXCEPT !.pc = "returned", !.out = <<ruleResult>>]
                   ELSE [frame EXCEPT !.position = @ + 1,
                                      !.locals.results = @ \o ruleResult.value[1]]]

\* lines 260-275: results.sort sorts the array of this call
ScoreReturnStep(objects, frame) ==
    [heap |-> objects,
     frame |-> [frame EXCEPT
                   !.pc = "returned",
                   !.out = <<Returns(ScoredResult(objects.inputs[frame.input],
                                                  frame.locals.results))>>]]

\* raw transactions: one whose second instruction is of the system program,
\* one with a program index past the keys, one without meta
RawInputs ==
    LET keys == <<StringKey(SYSTEM_PROGRAM_ID), StringKey(UnlistedAddress)>>
    IN  <<RawTransaction(<<>>, keys, <<Instruction(1), Instruction(0)>>, <<"SigA">>,
                         <<Meta(<<>>, <<1>>, <<0>>, <<>>, <<>>)>>),
          RawTransaction(<<Num(1)>>, keys, <<Instruction(0), Instruction(2)>>, <<"SigB">>,
                         <<Meta(<<"InstructionError">>, <<>>, <<>>, <<>>, <<>>)>>),
          RawTransaction(<<>>, keys, <<Instruction(0)>>, <<"SigC">>, <<>>)>>

ParsedInputs ==
    <<ParsedTransaction("failed", AccountChangesMoving(150 * LamportsPerSol, FALSE),
                        <<>>, <<>>, 1400, 0),
      QuietTransaction>>

\* decoder lists in which the order of the decoders matters
SharedDecoderLists ==
    {decs \in DecoderLists(MaxDecoders) : Len(decs) = 2 /\ decs[1].type # decs[2].type}

SharedRuleLists ==
    {DEFAULT_RULES,
     <<MatchingRule(RuleResult(5, "first_five", "five")), ThrowingRule>>,
     <<MatchingRule(RuleResult(3, "three", "three")),
       MatchingRule(RuleResult(7, "seven", ""))>>}

\* a call of parse(rawTransaction) or of scoreTransaction(tx, rules) on one
\* of the objects of the heap; two calls may be given the same object
CallsOn(objects) ==
    {Frame(IF input <= Len(RawInputs) THEN "parse" ELSE "scoreTransaction",
           input, objects) : input \in 1..Len(objects.inputs)}

ConcurrentInit ==
    /\ \E decs \in SharedDecoderLists, rules \in SharedRuleLists :
           heap = [decoders |-> decs, rules |-> rules,
                   inputs |-> RawInputs \o ParsedInputs]
    /\ frames \in SeqsUpTo(CallsOn(heap), MaxCalls)
    /\ frames # <<>>
    /\ NoParse
    /\ decodeCall = NoDecodeCall
    /\ scoreCall = NoScoreCall
    /\ find = NoFind
    /\ listCall = NoListCall

\* call c takes the step
Takes(c, step) ==
    /\ heap' = step.heap
    /\ frames' = [frames EXCEPT ![c] = step.frame]
    /\ UNCHANGED <<decoders, raw, result, consulted, decodeCall, scoreCall, find, listCall>>

ParseEnter ==
    \E c \in DOMAIN frames :
        /\ frames[c].does = "parse" /\ frames[c].pc = "called"
        /\ Takes(c, ParseEnterStep(heap, frames[c]))

ParseInstruction ==
    \E c \in DOMAIN frames :
        /\ frames[c].does = "parse" /\ frames[c].pc = "instructions"
        /\ frames[c].position < Len(heap.inputs[frames[c].input].instructions)
        /\ Takes(c, ParseInstructionStep(heap, frames[c]))

ParseReturn ==
    \E c \in DOMAIN frames :
        /\ frames[c].does = "parse" /\ frames[c].pc = "instructions"
        /\ frames[c].position >= Len(heap.inputs[frames[c].input].instructions)
        /\ Takes(c, ParseReturnStep(heap, frames[c]))

ScoreEnter ==
    \E c \in DOMAIN frames :
        /\ frames[c].does = "scoreTransaction" /\ frames[c].pc = "called"
        /\ Takes(c, ScoreEnterStep(heap, frames[c]))

ScoreRule ==
    \E c \in DOMAIN frames :
        /\ frames[c].does = "scoreTransaction" /\ frames[c].pc = "rules"
        /\ frames[c].position <= Len(heap.rules)
        /\ Takes(c, ScoreRuleStep(heap, frames[c]))

ScoreReturn ==
    \E c \in DOMAIN frames :
        /\ frames[c].does = "scoreTransaction" /\ frames[c].pc = "rules"
        /\ frames[c].position > Len(heap.rules)
        /\ Takes(c, ScoreReturnStep(heap, frames[c]))

ConcurrentNext ==
    ParseEnter \/ ParseInstruction \/ ParseReturn \/ ScoreEnter \/ ScoreRule \/ ScoreReturn

ConcurrentSpec == ConcurrentInit /\ [][ConcurrentNext]_vars

(***************************************************************************)
(* The functions over lists of transactions, each called on a list:        *)
(* filterByScore, filterByTags, scoreTransactions under DEFAULT_RULES, and *)
(* the three in the order the find command applies them.  A minScore that  *)
(* is not given is <<>>.                                                   *)
(***************************************************************************)
ScoredTransaction(signature, totalScore, tags) ==
    [transaction |-> [QuietTransaction EXCEPT !.signature = signature],
     totalScore |-> totalScore, tags |-> tags, reasons |-> tags,
     topTag |-> IF tags = <<>> THEN "unknown" ELSE tags[1]]

ScoredTransactions ==
    {ScoredTransaction("SigA", 0, <<>>),
     ScoredTransaction("SigB", 4, <<"medium_move">>),
     ScoredTransaction("SigC", 5, <<"failed">>),
     ScoredTransaction("SigD", 5, <<"defi">>),
     ScoredTransaction("SigE", 15, <<"whale_move", "failed">>)}

\* parsed transactions that DEFAULT_RULES score 0, 5, 5, 10 and 15
ParsedTransactions ==
    {QuietTransaction,
     ParsedTransaction("failed", <<>>, <<>>, <<>>, 1400, 0),
     [ParsedTransaction("failed", <<>>, <<>>, <<>>, 1400, 0) EXCEPT !.signature = "SigB"],
     ParsedTransaction("success", AccountChangesMoving(150 * LamportsPerSol, FALSE),
                       <<>>, <<>>, 1400, 0),
     ParsedTransaction("failed", AccountChangesMoving(150 * LamportsPerSol, FALSE),
                       <<>>, <<>>, 1400, 0)}

MinScores == {<<>>, <<0>>, <<5>>, <<6>>}

TagLists == {<<>>, <<"failed">>, <<"whale_move", "medium_move">>, <<"nft_mint">>}

\* the rule lists scoreTransactions is called with: the default, rules that
\* give every transaction the same score, and a list with a rule that throws
ListRuleLists ==
    {DEFAULT_RULES,
     <<MatchingRule(RuleResult(3, "three", "three")),
       MatchingRule(RuleResult(7, "seven", ""))>>,
     <<MatchingRule(RuleResult(5, "first_five", "five")), ThrowingRule>>}

ListCall(does, list, rules, minScore, tags) ==
    [does |-> does, list |-> list, rules |-> rules, minScore |-> minScore, tags |-> tags,
     called |-> FALSE, thrown |-> <<>>, value |-> <<>>]

ListInit ==
    /\ \/ \E list \in SeqsUpTo(ScoredTransactions, MaxBatch), minScore \in MinScores :
              listCall = ListCall("filterByScore", list, <<>>, minScore, <<>>)
       \/ \E list \in SeqsUpTo(ScoredTransactions, MaxBatch), tags \in TagLists :
              listCall = ListCall("filterByTags", list, <<>>, <<>>, tags)
       \/ \E list \in SeqsUpTo(ParsedTransactions, MaxBatch), rules \in ListRuleLists :
              listCall = ListCall("scoreTransactions", list, rules, <<>>, <<>>)
       \/ \E list \in SeqsUpTo(ParsedTransactions, MaxBatch),
             minScore \in MinScores \ {<<>>}, tags \in TagLists :
              listCall = ListCall("find", list, DEFAULT_RULES, minScore, tags)
    /\ NoParse
    /\ decodeCall = NoDecodeCall
    /\ scoreCall = NoScoreCall
    /\ find = NoFind
    /\ heap = NoHeap
    /\ frames = <<>>

\* the call returns or throws; filter and map make a new array and leave
\* the list they are called on as it is
Called(outcome) ==
    /\ ~listCall.called
    /\ listCall' = [listCall EXCEPT !.called = TRUE, !.thrown = outcome.thrown,
                                    !.value = outcome.value]
    /\ UNCHANGED <<decoders, raw, result, consulted, decodeCall, scoreCall, find,
                   heap, frames>>

CallFilterByScore ==
    /\ listCall.does = "filterByScore"
    /\ Called(Returns(filterByScore(listCall.list,
                  IF listCall.minScore = <<>> THEN DefaultMinScore
                  ELSE listCall.minScore[1])))

CallFilterByTags ==
    /\ listCall.does = "filterByTags"
    /\ Called(Returns(filterByTags(listCall.list, listCall.tags)))

CallScoreTransactions ==
    /\ listCall.does = "scoreTransactions"
    /\ Called(scoreTransactions(listCall.list, listCall.rules))

CallFindPipeline ==
    /\ listCall.does = "find"
    /\ Called(FindPipeline(listCall.list, listCall.minScore[1], listCall.tags))

ListNext == CallFilterByScore \/ CallFilterByTags \/ CallScoreTransactions \/ CallFindPipeline

ListSpec == ListInit /\ [][ListNext]_vars

(***************************************************************************)
(* Properties.  Each is stated on the raw transaction and on what the call *)
(* returned, without the operators that model the parser.                  *)
(***************************************************************************)
Returned == result.called /\ result.value # <<>>

Failed == result.called /\ result.thrown # <<>>

\* accountKeys[i] as an address, for an index inside the list
KeyAt(i) == raw.accountKeys[i + 1].pubkey

InKeys(i) == 0 <= i /\ i < Len(raw.accountKeys)

\* C1: whenever parse returns, programInteractions has one entry per raw
\* instruction, and entry k is about instruction k.
C1_OneInteractionPerInstruction ==
    Returned =>
        LET interactions == result.value[1].programInteractions
        IN  /\ Len(interactions) = Len(raw.instructions)
            /\ \A k \in 1..Len(raw.instructions) :
                   (k <= Len(interactions) /\ InKeys(raw.instructions[k].programIdIndex))
                   => interactions[k].programId = KeyAt(raw.instructions[k].programIdIndex)

\* the account indices whose balance changed, in increasing order
ChangedIndexes ==
    LET pre == raw.meta[1].preBalances
        post == raw.meta[1].postBalances
    IN  SelectSeq([i \in 1..Len(pre) |-> i - 1],
                  LAMBDA i : post[i + 1] - pre[i + 1] # 0)

\* C2: with balance lists of equal length, accountChanges has exactly one
\* entry per account index whose balance changed, in index order,
\* whatever the length of the account-key list.
C2_OneChangePerChangedIndex ==
    (Returned /\ Len(raw.meta[1].preBalances) = Len(raw.meta[1].postBalances)) =>
        LET changes == result.value[1].accountChanges
        IN  /\ Len(changes) = Len(ChangedIndexes)
            /\ \A k \in 1..Len(changes) :
                   k <= Len(ChangedIndexes) =>
                       changes[k].balanceChange =
                           raw.meta[1].postBalances[ChangedIndexes[k] + 1]
                           - raw.meta[1].preBalances[ChangedIndexes[k] + 1]

\* C3: no accountChanges entry of a returned transaction has balanceChange 0.
C3_NoZeroChange ==
    Returned =>
        \A k \in 1..Len(result.value[1].accountChanges) :
            result.value[1].accountChanges[k].balanceChange # 0

\* a transaction with an unchanged and a changed account was parsed
C3_Witness ==
    /\ Returned
    /\ \E i \in 1..Len(raw.meta[1].preBalances) :
           raw.meta[1].postBalances[i] = raw.meta[1].preBalances[i]
    /\ result.value[1].accountChanges # <<>>

\* C4: with meta absent, parse throws INCOMPLETE_TRANSACTION_DATA carrying
\* the first signature and returns nothing, whatever the block time is.
C4_MissingMetaFailsFirst ==
    (result.called /\ raw.meta = <<>>) =>
        /\ result.value = <<>>
        /\ result.thrown =
               << [isTxLensError |-> TRUE, code |-> "INCOMPLETE_TRANSACTION_DATA",
                   signature |-> IF raw.signatures = <<>> THEN Undefined
                                 ELSE raw.signatures[1]] >>

\* parse was called without meta and with a block time that is no date
C4_Witness ==
    /\ Failed
    /\ raw.meta = <<>>
    /\ raw.blockTime = <<Infinity>>
    /\ raw.signatures = <<"SigB", "SigA">>
    /\ result.thrown[1].signature = "SigB"

\* the block time is one that new Date() turns into an invalid Date and
\* that the truthiness test lets through
BlockTimeRejected ==
    /\ raw.blockTime # <<>>
    /\ \/ raw.blockTime[1].k = "Infinity"
       \/ raw.blockTime[1].k = "num" /\ raw.blockTime[1].v > MaxDateSec
       \/ raw.blockTime[1].k = "num" /\ raw.blockTime[1].v < -MaxDateSec

BalanceLengthsDiffer ==
    /\ raw.meta # <<>>
    /\ Len(raw.meta[1].preBalances) # Len(raw.meta[1].postBalances)

\* C5 as stated: with meta present and balance lists of different
\* lengths, parse throws INVALID_BALANCE_DATA.
C5_LengthMismatchIsInvalidBalanceData ==
    (result.called /\ BalanceLengthsDiffer) =>
        /\ result.value = <<>>
        /\ result.thrown # <<>>
        /\ result.thrown[1].isTxLensError
        /\ result.thrown[1].code = "INVALID_BALANCE_DATA"

\* C5 amended: with meta present and balance lists of different lengths,
\* parse returns nothing and throws a typed TxLensError, never
\* PARSING_FAILED: TIMESTAMP_PARSING_ERROR when the block time is rejected
\* (it is checked before the balances), INVALID_BALANCE_DATA otherwise.
C5_LengthMismatchFails ==
    (result.called /\ BalanceLengthsDiffer) =>
        /\ result.value = <<>>
        /\ result.thrown # <<>>
        /\ result.thrown[1].isTxLensError
        /\ result.thrown[1].code =
               IF BlockTimeRejected THEN "TIMESTAMP_PARSING_ERROR"
               ELSE "INVALID_BALANCE_DATA"

\* a length mismatch was reported as INVALID_BALANCE_DATA
C5_Witness ==
    /\ Failed
    /\ BalanceLengthsDiffer
    /\ result.thrown[1].code = "INVALID_BALANCE_DATA"

\* the block time is present and is no valid instant: NaN, infinite or
\* outside the Date range
BlockTimeInvalid ==
    /\ raw.blockTime # <<>>
    /\ \/ raw.blockTime[1].k # "num"
       \/ raw.blockTime[1].v > MaxDateSec
       \/ raw.blockTime[1].v < -MaxDateSec

\* C6: a block time that is present and is no valid instant makes parse
\* throw TIMESTAMP_PARSING_ERROR; it never becomes a null blockTime.
C6_InvalidBlockTimeIsRejected ==
    (result.called /\ raw.meta # <<>> /\ BlockTimeInvalid) =>
        /\ result.value = <<>>
        /\ result.thrown # <<>>
        /\ result.thrown[1].code = "TIMESTAMP_PARSING_ERROR"

\* C7: for a block time that is absent or a valid instant, the returned
\* blockTime is null exactly when the raw blockTime is absent, and a raw
\* blockTime of v seconds, for every valid v from 0 upward, is returned as
\* the instant v seconds after the epoch.
C7_NullBlockTimeOnlyWhenAbsent ==
    (Returned /\ ~BlockTimeInvalid) =>
        /\ (result.value[1].blockTime = <<>>) <=> (raw.blockTime = <<>>)
        /\ \A v \in 0..MaxDateSec :
               raw.blockTime = <<Num(v)>>
               => result.value[1].blockTime = <<[ms |-> v * 1000]>>

\* the amount a snapshot holds for the key (accountIndex, mint): that of
\* its last entry with the key, 0 when it has none
SnapshotAmount(balances, accountIndex, mint) ==
    LET at == {b \in 1..Len(balances) :
                  balances[b].accountIndex = accountIndex /\ balances[b].mint = mint}
    IN  IF at = {} THEN Num(0)
        ELSE parseFloat(balances[CHOOSE b \in at : \A o \in at : o <= b].uiTokenAmount.amount)

TokenKeys ==
    {<<raw.meta[1].preTokenBalances[b].accountIndex, raw.meta[1].preTokenBalances[b].mint>> :
        b \in 1..Len(raw.meta[1].preTokenBalances)}
    \cup
    {<<raw.meta[1].postTokenBalances[b].accountIndex, raw.meta[1].postTokenBalances[b].mint>> :
        b \in 1..Len(raw.meta[1].postTokenBalances)}

\* C8: every tokenTransfers entry is the entry of a key: its amount is the
\* magnitude of the key's delta postAmount - preAmount, and exactly one of
\* from / to is the key's account address, the other being "unknown": to
\* for a positive delta, from for a negative one.
C8_OneSideOfTransferKnown ==
    Returned =>
        \A n \in 1..Len(result.value[1].tokenTransfers) :
            LET t == result.value[1].tokenTransfers[n]
            IN  \E key \in TokenKeys :
                    LET delta == JsMinus(
                            SnapshotAmount(raw.meta[1].postTokenBalances, key[1], key[2]),
                            SnapshotAmount(raw.meta[1].preTokenBalances, key[1], key[2]))
                    IN  /\ InKeys(key[1])
                        /\ t.mint = key[2]
                        /\ t.amount = JsAbs(delta)
                        /\ \/ JsPositive(delta) /\ t.to = KeyAt(key[1]) /\ t.from = "unknown"
                           \/ JsNegative(delta) /\ t.from = KeyAt(key[1]) /\ t.to = "unknown"

\* what canDecode of the j-th registered decoder does for a program id
CanDecodeOutcome(j, programId) ==
    IF programId \in decoders[j].faults THEN "throw"
    ELSE IF programId \in decoders[j].owns THEN "true"
    ELSE "false"

\* the position in programInteractions of the entry of instruction k
\* (1-based): the instructions whose program account index is outside the
\* key list have no entry
EntryOf(k) ==
    Cardinality({m \in 1..k : InKeys(raw.instructions[m].programIdIndex)})

\* the entry recorded for instruction k is the result of decoder j
EntryIsFrom(k, j) ==
    LET entry == result.value[1].programInteractions[EntryOf(k)]
    IN  IF decoders[j].dec = "null"
        THEN entry.instructionType = "Unknown" /\ entry.details = <<>>
        ELSE /\ entry.instructionType = decoders[j].type
             /\ entry.details = <<<<"decoder", j>>>>

\* no decoder after the j-th was called for instruction k
NoneConsultedAfter(k, j) ==
    \A c \in 1..Len(consulted) :
        consulted[c].instruction = k - 1 => consulted[c].decoder <= j

NoStructuralFault ==
    /\ raw.meta # <<>>
    /\ ~BlockTimeRejected
    /\ ~BalanceLengthsDiffer
    /\ \A b \in 1..Len(raw.meta[1].preTokenBalances) :
           InKeys(raw.meta[1].preTokenBalances[b].accountIndex)
    /\ \A b \in 1..Len(raw.meta[1].postTokenBalances) :
           InKeys(raw.meta[1].postTokenBalances[b].accountIndex)

\* no registered decoder's canDecode returns true for the program id
Unhandled(programId) ==
    \A j \in 1..Len(decoders) : CanDecodeOutcome(j, programId) # "true"

\* C10: an instruction whose program id no registered decoder handles gets
\* the entry {programId, programName from the static registry or
\* undefined, "Unknown", {}}, and it does not make parse fail.
C10_UnhandledProgramIsUnknown ==
    /\ (result.called /\ NoStructuralFault) => Returned
    /\ Returned =>
           \A k \in 1..Len(raw.instructions) :
               (/\ InKeys(raw.instructions[k].programIdIndex)
                /\ Unhandled(KeyAt(raw.instructions[k].programIdIndex)))
               => LET programId == KeyAt(raw.instructions[k].programIdIndex)
                  IN  result.value[1].programInteractions[EntryOf(k)] =
                          [programId |-> programId,
                           programName |-> IF programId \in DOMAIN KNOWN_PROGRAMS
                                           THEN KNOWN_PROGRAMS[programId]
                                           ELSE Undefined,
                           instructionType |-> "Unknown",
                           details |-> <<>>]

\* a transaction was parsed whose instruction calls an unlisted program
\* that the one registered decoder does not handle
C10_Witness ==
    /\ Returned
    /\ Len(decoders) = 1
    /\ consulted = <<[instruction |-> 0, decoder |-> 1, method |-> "canDecode"]>>
    /\ Len(raw.instructions) = 1
    /\ result.value[1].programInteractions =
           <<[programId |-> UnlistedAddress, programName |-> Undefined,
              instructionType |-> "Unknown", details |-> <<>>]>>


\* a decoder consulted for instruction k (1-based) threw, in canDecode or
\* in decode
DecoderThrewOn(k) ==
    \E c \in 1..Len(consulted) :
        /\ consulted[c].instruction = k - 1
        /\ \/ /\ consulted[c].method = "canDecode"
              /\ CanDecodeOutcome(consulted[c].decoder,
                                  KeyAt(raw.instructions[k].programIdIndex)) = "throw"
           \/ /\ consulted[c].method = "decode"
              /\ decoders[consulted[c].decoder].dec = "throw"

\* the raw transaction with instruction m (1-based) as its only instruction
RawWithOnly(m) == [raw EXCEPT !.instructions = <<raw.instructions[m]>>]

\* C11: a decoder that throws for an instruction does not make parse fail,
\* and the entry of every instruction is the one it gets when it is parsed
\* as the only instruction of the transaction, where no decoder has thrown
\* for another instruction; an instruction for which no decoder threw has
\* the entry of the first decoder whose canDecode returned true, or the
\* Unknown entry when there is none.
C11_DecoderThrowIsContained ==
    /\ (result.called /\ NoStructuralFault) => Returned
    /\ Returned =>
           LET interactions == result.value[1].programInteractions
           IN  /\ Len(interactions) =
                      Cardinality({m \in 1..Len(raw.instructions) :
                                      InKeys(raw.instructions[m].programIdIndex)})
               /\ \A m \in 1..Len(raw.instructions) :
                      InKeys(raw.instructions[m].programIdIndex) =>
                          LET programId == KeyAt(raw.instructions[m].programIdIndex)
                              owners == {j \in 1..Len(decoders) :
                                            CanDecodeOutcome(j, programId) = "true"}
                              alone == parse(RawWithOnly(m), decoders).out
                          IN  /\ alone.value # <<>>
                              /\ interactions[EntryOf(m)] =
                                     alone.value[1].programInteractions[1]
                              /\ ~DecoderThrewOn(m) =>
                                     IF owners = {}
                                     THEN /\ interactions[EntryOf(m)].instructionType = "Unknown"
                                          /\ interactions[EntryOf(m)].details = <<>>
                                     ELSE EntryIsFrom(m, CHOOSE j \in owners :
                                                             \A o \in owners : j <= o)

\* parse returned after a decoder had thrown for the second instruction
\* and the first instruction had been decoded by a decoder
C11_Witness ==
    /\ Returned
    /\ Len(raw.instructions) = 2
    /\ InKeys(raw.instructions[1].programIdIndex)
    /\ InKeys(raw.instructions[2].programIdIndex)
    /\ DecoderThrewOn(2)
    /\ ~DecoderThrewOn(1)
    /\ Len(result.value[1].programInteractions) = 2
    /\ result.value[1].programInteractions[1].instructionType = "Transfer"


\* the payload of the decoded instruction
Payload == decodeCall.instruction.data.bytes

\* the account the instruction names at position index (0-based)
AccountAt(index) ==
    decodeCall.accountKeys[decodeCall.instruction.accounts[index + 1] + 1].pubkey

\* the instruction is a well-formed transfer: the payload is base-58 text
\* for at least twelve bytes that start with 2 0 0 0, and the first two
\* accounts are in the account list
WellFormedTransfer ==
    /\ decodeCall.decoder = "system"
    /\ decodeCall.instruction.data.base58
    /\ Len(Payload) >= 12
    /\ SubSeq(Payload, 1, 4) = <<2, 0, 0, 0>>
    /\ Len(decodeCall.instruction.accounts) >= 2
    /\ \A index \in {0, 1} :
           LET i == decodeCall.instruction.accounts[index + 1]
           IN  0 <= i /\ i < Len(decodeCall.accountKeys)

\* C12: decode of a transfer instruction returns type Transfer with from
\* and to the first two accounts of the instruction and lamports the
\* number whose base-256 digits are the payload bytes 4 to 11.
C12_TransferIsDecoded ==
    (decodeCall.called /\ WellFormedTransfer) =>
        decodeCall.decoded[1] =
            [type |-> "Transfer",
             params |-> <<<<"from", AccountAt(0)>>, <<"to", AccountAt(1)>>,
                          <<"lamports", [k |-> "num",
                                         base256 |-> SubSeq(Payload, 5, 12) \o <<0>>]>>>>]


\* scoreTransaction returned
Scored == scoreCall.called /\ scoreCall.value # <<>>

\* what the i-th rule of the list does for the transaction: it throws, or
\* returns false or a RuleResult
RuleOutcome(i) ==
    ApplyRule(scoreCall.rules[i], normalizeTransaction(scoreCall.transaction))

\* the positions of the rules that return a RuleResult
Matching ==
    {i \in 1..Len(scoreCall.rules) :
        ~HasThrown(RuleOutcome(i)) /\ RuleOutcome(i).value[1] # Abstains}

MatchOf(i) == RuleOutcome(i).value[1][1]

RECURSIVE SumOfScores(_)
SumOfScores(S) ==
    IF S = {} THEN 0
    ELSE LET i == CHOOSE i \in S : TRUE
         IN  MatchOf(i).score + SumOfScores(S \ {i})

\* the rule list with the rules at positions i and j exchanged
Exchanged(i, j) ==
    [n \in 1..Len(scoreCall.rules) |->
        IF n = i THEN scoreCall.rules[j]
        ELSE IF n = j THEN scoreCall.rules[i]
        ELSE scoreCall.rules[n]]

C14_TopTagIsEarliestMaximum ==
    (Scored /\ Matching # {}) =>
        LET top == CHOOSE i \in Matching :
                       \A j \in Matching :
                           \/ MatchOf(i).score > MatchOf(j).score
                           \/ MatchOf(i).score = MatchOf(j).score /\ i <= j
        IN  scoreCall.value[1].topTag = MatchOf(top).tag

\* two rules matched with the same, maximum score after a rule of a
\* smaller score
C14_Witness ==
    /\ Scored
    /\ \E i, j, k \in Matching :
           /\ i < j /\ j < k
           /\ MatchOf(i).score < MatchOf(j).score
           /\ MatchOf(j).score = MatchOf(k).score
           /\ MatchOf(j).tag # MatchOf(k).tag
           /\ \A m \in Matching : MatchOf(m).score <= MatchOf(j).score
           /\ scoreCall.value[1].topTag = MatchOf(j).tag

\* the k-th smallest member of a set of positions
Nth(S, k) == CHOOSE i \in S : Cardinality({j \in S : j <= i}) = k

\* C15: tags and reasons have one entry per rule that did not abstain, and
\* position k of both is about the k-th such rule in the order of the
\* rule list: its tag, and its reason or, for want of one, its tag.
C15_TagsAndReasonsInRuleOrder ==
    Scored =>
        LET tags == scoreCall.value[1].tags
            reasons == scoreCall.value[1].reasons
        IN  /\ Len(tags) = Cardinality(Matching)
            /\ Len(reasons) = Cardinality(Matching)
            /\ \A k \in 1..Cardinality(Matching) :
                   LET match == MatchOf(Nth(Matching, k))
                   IN  /\ tags[k] = match.tag
                       /\ reasons[k] = IF match.reason = <<>> \/ match.reason = <<"">>
                                       THEN match.tag ELSE match.reason[1]

\* two rules matched, the one of the smaller score first, and one of them
\* gave no reason
C15_Witness ==
    /\ Scored
    /\ Cardinality(Matching) = 2
    /\ MatchOf(Nth(Matching, 1)).score < MatchOf(Nth(Matching, 2)).score
    /\ scoreCall.value[1].tags = <<"three", "seven">>
    /\ scoreCall.value[1].reasons = <<"three", "seven">>

\* every rule of the list returns false
AllAbstain ==
    \A i \in 1..Len(scoreCall.rules) :
        ~HasThrown(RuleOutcome(i)) /\ RuleOutcome(i).value[1] = Abstains

\* C16: when every rule abstains the transaction is scored 0 with no tag,
\* no reason and the top tag "unknown".
C16_NoMatchIsUnknown ==
    (scoreCall.called /\ AllAbstain) =>
        /\ Scored
        /\ scoreCall.value[1].totalScore = 0
        /\ scoreCall.value[1].tags = <<>>
        /\ scoreCall.value[1].reasons = <<>>
        /\ scoreCall.value[1].topTag = "unknown"

\* the nine default rules were run and every one abstained
C16_Witness ==
    /\ Scored
    /\ scoreCall.rules = DEFAULT_RULES
    /\ AllAbstain
    /\ scoreCall.value[1].topTag = "unknown"

\* the lamports the transaction moves: the sum of |balanceChange|
Moved ==
    LET changes == scoreCall.transaction.accountChanges
    IN  IF changes = <<>> THEN 0
        ELSE IF Len(changes) = 1 THEN Abs(changes[1].balanceChange)
        ELSE Abs(changes[1].balanceChange) + Abs(changes[2].balanceChange)

SolMovedTags == {"whale_move", "large_move", "medium_move"}

\* nothing but the SOL moved can make a default rule match
NoOtherSignal ==
    LET tx == scoreCall.transaction
    IN  /\ tx.status = "success"
        /\ tx.tokenTransfers = <<>>
        /\ tx.programInteractions = <<>>
        /\ tx.computeUnits.used * 100 <= 80 * tx.computeUnits.limit
        /\ tx.fee * 100 <= LamportsPerSol

\* C17: the SOL-moved rule gives at most one result: (10, whale_move)
\* above 100 SOL, else (7, large_move) above 50 SOL, else (4, medium_move)
\* above 10 SOL, else none; under DEFAULT_RULES its tag comes first, and a
\* transaction that moves 150 SOL with no other signal has the tags
\* [whale_move] and the score 10.
C17_SolMovedRule ==
    LET expected == IF Moved > 100 * LamportsPerSol THEN <<10, "whale_move">>
                    ELSE IF Moved > 50 * LamportsPerSol THEN <<7, "large_move">>
                    ELSE IF Moved > 10 * LamportsPerSol THEN <<4, "medium_move">>
                    ELSE <<0, "none">>
    IN  /\ (Scored /\ scoreCall.rules = <<DEFAULT_RULES[1]>>) =>
               /\ scoreCall.value[1].totalScore = expected[1]
               /\ scoreCall.value[1].tags =
                      IF expected[1] = 0 THEN <<>> ELSE <<expected[2]>>
        /\ (Scored /\ scoreCall.rules = DEFAULT_RULES) =>
               LET tags == scoreCall.value[1].tags
               IN  /\ Cardinality({k \in 1..Len(tags) : tags[k] \in SolMovedTags}) =
                          IF expected[1] = 0 THEN 0 ELSE 1
                   /\ expected[1] # 0 => tags[1] = expected[2]
                   /\ (NoOtherSignal /\ Moved = 150 * LamportsPerSol) =>
                          /\ tags = <<"whale_move">>
                          /\ scoreCall.value[1].totalScore = 10

\* a transaction that moves 150 SOL and has no other signal was scored
\* under DEFAULT_RULES
C17_Witness ==
    /\ Scored
    /\ scoreCall.rules = DEFAULT_RULES
    /\ NoOtherSignal
    /\ Moved = 150 * LamportsPerSol
    /\ scoreCall.value[1].tags = <<"whale_move">>

\* C18: scoreTransaction never fails: a rule that cannot evaluate counts
\* as abstaining, and the other rules' results are aggregated.
C18_ScoreNeverFails ==
    scoreCall.called =>
        /\ Scored
        /\ scoreCall.value[1].totalScore = SumOfScores(Matching)
        /\ Len(scoreCall.value[1].tags) = Cardinality(Matching)


\* what the chain holds for a signature of the listed transactions
KindOf(signature) ==
    find.chain[CHOOSE n \in 1..Len(find.transactions) :
                   find.transactions[n].signature = signature]

\* the visited transactions that were fetched and that parse accepts: the
\* request was answered with a transaction whose balance lists have one
\* length and whose block time is in range
ParsedSoFar ==
    SelectSeq(find.visited,
              LAMBDA v : v.fetched /\ KindOf(v.signature) \in {"moves", "failed"})

\* the transactions are visited one at a time in the order of the list,
\* the parsed ones are collected in that order, and scoring gets the list
\* only after every transaction was visited
FindInOrder ==
    find.pc # "idle" =>
        /\ find.index = Len(find.visited)
        /\ Len(find.visited) <= Len(find.filtered)
        /\ \A k \in 1..Len(find.visited) :
               find.visited[k].signature = find.filtered[k].signature
        /\ Len(find.parsedTransactions) = Len(ParsedSoFar)
        /\ \A k \in 1..Len(ParsedSoFar) :
               find.parsedTransactions[k].signature = ParsedSoFar[k].signature
        /\ find.handed # <<>> =>
               /\ Len(find.visited) = Len(find.filtered)
               /\ find.handed[1] = find.parsedTransactions

\* C20: the find command fetches and parses the transactions one at a time
\* in list order; a failed fetch or parse skips that transaction only;
\* every later transaction is still visited, and scoring is in the end
\* handed exactly the transactions that parsed, in their original order.
C20_FindSkipsFailures ==
    /\ []FindInOrder
    /\ (find.pc = "loop") ~> (find.handed # <<>> /\ Len(find.visited) = Len(find.filtered))

\* scoring was handed the third transaction alone, after the request for
\* the first had failed and the second had been fetched but not parsed
C20_Witness ==
    /\ find.pc # "idle"
    /\ find.handed # <<>>
    /\ Len(find.visited) = 3
    /\ ~find.visited[1].fetched
    /\ find.visited[2].fetched
    /\ KindOf(find.visited[2].signature) = "balances"
    /\ Len(find.handed[1]) = 1
    /\ find.handed[1][1].signature = find.visited[3].signature

(***************************************************************************)
(* C19: calls of parse and of scoreTransaction interleaved in any way over *)
(* a shared decoder list and a shared rule list each return what the same  *)
(* call returns alone, and the decoder list, the rule list and the input   *)
(* transactions stay as they were.                                         *)
(***************************************************************************)
\* what call c returns when it runs alone on the objects it was given
Alone(c) ==
    IF frames[c].does = "parse"
    THEN parse(frames[c].given.input, frames[c].given.decoders).out
    ELSE scoreTransaction(frames[c].given.input, frames[c].given.rules)

C19_CallsDoNotInterfere ==
    \A c \in DOMAIN frames :
        /\ heap.decoders = frames[c].given.decoders
        /\ heap.rules = frames[c].given.rules
        /\ heap.inputs[frames[c].input] = frames[c].given.input
        /\ frames[c].pc = "returned" => frames[c].out = <<Alone(c)>>

\* a parse call has returned a transaction while a scoreTransaction call is
\* in the middle of its loop over the rules
C19_Witness ==
    /\ Len(frames) = 2
    /\ frames[1].does = "parse" /\ frames[2].does = "scoreTransaction"
    /\ frames[1].pc = "returned" /\ frames[1].out[1].value # <<>>
    /\ frames[1].position = 2
    /\ frames[2].pc = "rules" /\ frames[2].position = 2

\* "Unknown <Program> Instruction"
UnknownProgramInstruction(program) == "Unknown " \o program \o " Instruction"

\* the instruction types of that form, for the programs of the registry
\* and the two programs that have a decoder
GenericInstructionTypes ==
    {UnknownProgramInstruction(KNOWN_PROGRAMS[p]) : p \in DOMAIN KNOWN_PROGRAMS}
    \cup {UnknownProgramInstruction("System"), UnknownProgramInstruction("Token")}

\* C21: when the first decoder whose canDecode returns true for the
\* program id of an instruction throws in decode, the entry recorded for
\* the instruction has an instructionType of the form "Unknown <Program>
\* Instruction", the program id, and details that carry the error.
C21_FailedDecodeIsGenericUnknown ==
    Returned =>
        \A k \in 1..Len(raw.instructions) :
            InKeys(raw.instructions[k].programIdIndex) =>
                LET programId == KeyAt(raw.instructions[k].programIdIndex)
                    owners == {j \in 1..Len(decoders) :
                                  CanDecodeOutcome(j, programId) = "true"}
                    first == CHOOSE j \in owners : \A o \in owners : j <= o
                    entry == result.value[1].programInteractions[EntryOf(k)]
                IN  (owners # {} /\ decoders[first].dec = "throw") =>
                        /\ entry.instructionType \in GenericInstructionTypes
                        /\ entry.programId = programId
                        /\ \E d \in 1..Len(entry.details) : entry.details[d][1] = "error"

\* postAmount - preAmount of a key, a side the snapshot lacks counted as 0
DeltaOf(key) ==
    JsMinus(SnapshotAmount(raw.meta[1].postTokenBalances, key[1], key[2]),
            SnapshotAmount(raw.meta[1].preTokenBalances, key[1], key[2]))

\* the keys whose delta is a number other than 0
ChangedKeys == {key \in TokenKeys : DeltaOf(key).k = "num" /\ DeltaOf(key).v # 0}

\* the entry of the post snapshot for the key when there is one, else
\* the entry of the pre snapshot
SnapshotEntry(key) ==
    LET in(balances) == {b \in 1..Len(balances) :
                            <<balances[b].accountIndex, balances[b].mint>> = key}
        last(balances) == balances[CHOOSE b \in in(balances) :
                                       \A o \in in(balances) : o <= b]
    IN  IF in(raw.meta[1].postTokenBalances) # {}
        THEN last(raw.meta[1].postTokenBalances)
        ELSE last(raw.meta[1].preTokenBalances)

\* C22: tokenTransfers has exactly one entry for each (accountIndex, mint)
\* key of the two snapshots whose delta is not zero, and no other entry;
\* the entry has the mint and the decimals of the key's post entry, or of
\* its pre entry when there is no post entry, and names its address.
C22_OneTransferPerChangedKey ==
    Returned =>
        LET transfers == result.value[1].tokenTransfers
        IN  /\ Len(transfers) = Cardinality(ChangedKeys)
            /\ \A key \in ChangedKeys :
                   \E n \in 1..Len(transfers) :
                       /\ transfers[n].mint = SnapshotEntry(key).mint
                       /\ transfers[n].decimals = SnapshotEntry(key).uiTokenAmount.decimals
                       /\ KeyAt(key[1]) \in {transfers[n].from, transfers[n].to}
                       /\ \A o \in 1..Len(transfers) :
                              (/\ transfers[o].mint = key[2]
                               /\ KeyAt(key[1]) \in {transfers[o].from, transfers[o].to})
                              => o = n

\* C23: every failure of parse is a TxLensError with one of four codes.
\* The three typed errors leave parse as they were made: the one for the
\* missing meta and the one for the block time with the first signature,
\* the one for the balance lists with its own details.  Any other fault
\* leaves as PARSING_FAILED with the first signature in its details.
C23_FailuresAreTxLensErrors ==
    Failed =>
        LET error == result.thrown[1]
            first == IF raw.signatures = <<>> THEN Undefined ELSE raw.signatures[1]
        IN  /\ error.isTxLensError
            /\ error.code \in {"INCOMPLETE_TRANSACTION_DATA", "INVALID_BALANCE_DATA",
                               "TIMESTAMP_PARSING_ERROR", "PARSING_FAILED"}
            /\ IF raw.meta = <<>>
               THEN error.code = "INCOMPLETE_TRANSACTION_DATA" /\ error.signature = first
               ELSE IF BlockTimeRejected
               THEN error.code = "TIMESTAMP_PARSING_ERROR" /\ error.signature = first
               ELSE IF BalanceLengthsDiffer
               THEN error.code = "INVALID_BALANCE_DATA" /\ error.signature = NoSignature
               ELSE error.code = "PARSING_FAILED" /\ error.signature = first

\* parse failed on a fault that is none of the three typed ones, and the
\* error is PARSING_FAILED with the signature of the transaction
C23_Witness ==
    /\ Failed
    /\ raw.meta # <<>>
    /\ ~BlockTimeRejected
    /\ ~BalanceLengthsDiffer
    /\ result.thrown[1].code = "PARSING_FAILED"
    /\ result.thrown[1].signature = "SigA"

\* account index 0 has an entry in accountChanges, which is then the first
IndexZeroHasEntry ==
    /\ Len(raw.meta[1].preBalances) >= 1
    /\ Len(raw.meta[1].postBalances) >= 1
    /\ raw.meta[1].postBalances[1] # raw.meta[1].preBalances[1]
    /\ InKeys(0)

\* C24: an accountChanges entry has isFeePayer true exactly when it is the
\* entry of account index 0 and the balance of that account went down; it
\* is then the first entry, and every other entry has isFeePayer false.
C24_FeePayerIsIndexZero ==
    Returned =>
        LET changes == result.value[1].accountChanges
        IN  \A k \in 1..Len(changes) :
                changes[k].isFeePayer <=>
                    /\ k = 1
                    /\ IndexZeroHasEntry
                    /\ raw.meta[1].postBalances[1] < raw.meta[1].preBalances[1]

\* two accounts lost balance and only the entry of index 0 is fee payer
C24_Witness ==
    /\ Returned
    /\ Len(result.value[1].accountChanges) = 2
    /\ result.value[1].accountChanges[1].isFeePayer
    /\ result.value[1].accountChanges[2].balanceChange < 0
    /\ ~result.value[1].accountChanges[2].isFeePayer

\* the InitializeMint interactions of the scored transaction, and those of
\* them whose details have decimals 0
MintInteractions ==
    {i \in 1..Len(scoreCall.transaction.programInteractions) :
        scoreCall.transaction.programInteractions[i].instructionType = "InitializeMint"}

ZeroDecimalMints ==
    {i \in MintInteractions :
        LET details == scoreCall.transaction.programInteractions[i].details
        IN  \E d \in 1..Len(details) : details[d] = <<"decimals", 0>>}

TagSet == {scoreCall.value[1].tags[k] : k \in 1..Len(scoreCall.value[1].tags)}

\* C25: the new_token rule gives (8, new_token) exactly when there is an
\* InitializeMint interaction and none with decimals 0; the nft_mint rule
\* gives (6, nft_mint) exactly when there is an InitializeMint interaction
\* with decimals 0; under DEFAULT_RULES a transaction has new_token
\* exactly in the first case, nft_mint exactly in the second, never both.
C25_MintRules ==
    LET newToken == MintInteractions # {} /\ ZeroDecimalMints = {}
        nftMint == ZeroDecimalMints # {}
    IN  /\ (Scored /\ scoreCall.rules = <<DEFAULT_RULES[2]>>) =>
               /\ scoreCall.value[1].totalScore = IF newToken THEN 8 ELSE 0
               /\ scoreCall.value[1].tags = IF newToken THEN <<"new_token">> ELSE <<>>
        /\ (Scored /\ scoreCall.rules = <<DEFAULT_RULES[3]>>) =>
               /\ scoreCall.value[1].totalScore = IF nftMint THEN 6 ELSE 0
               /\ scoreCall.value[1].tags = IF nftMint THEN <<"nft_mint">> ELSE <<>>
        /\ (Scored /\ scoreCall.rules = DEFAULT_RULES) =>
               /\ "new_token" \in TagSet <=> newToken
               /\ "nft_mint" \in TagSet <=> nftMint
               /\ ~("new_token" \in TagSet /\ "nft_mint" \in TagSet)

\* a transaction that initializes a mint with decimals 6 and one with
\* decimals 0 was scored under DEFAULT_RULES and is an nft_mint only
C25_Witness ==
    /\ Scored
    /\ scoreCall.rules = DEFAULT_RULES
    /\ Cardinality(MintInteractions) = 2
    /\ Cardinality(ZeroDecimalMints) = 1
    /\ "nft_mint" \in TagSet
    /\ "new_token" \notin TagSet

\* the positions of the list that the call exists to keep
Kept ==
    {n \in 1..Len(listCall.list) :
        IF listCall.does = "filterByScore"
        THEN listCall.list[n].totalScore >=
                 (IF listCall.minScore = <<>> THEN 5 ELSE listCall.minScore[1])
        ELSE \E k \in 1..Len(listCall.list[n].tags), t \in 1..Len(listCall.tags) :
                 listCall.list[n].tags[k] = listCall.tags[t]}

\* the n-th smallest element of a set of positions
RECURSIVE NthOf(_, _)
NthOf(S, n) ==
    LET least == CHOOSE i \in S : \A o \in S : i <= o
    IN  IF n = 1 THEN least ELSE NthOf(S \ {least}, n - 1)

\* C26: filterByScore returns the elements whose totalScore is at least
\* the minimum, 5 when none is given, and filterByTags the elements with a
\* tag among those given: all of them, no other, each as it was and in
\* the order of the list.
C26_FiltersKeepMatchingInOrder ==
    (listCall.called /\ listCall.does \in {"filterByScore", "filterByTags"}) =>
        /\ listCall.thrown = <<>>
        /\ Len(listCall.value[1]) = Cardinality(Kept)
        /\ \A n \in 1..Cardinality(Kept) :
               listCall.value[1][n] = listCall.list[NthOf(Kept, n)]

\* filterByScore without a minimum kept the second of three elements, of
\* score 5, and dropped one of score 4
C26_Witness ==
    /\ listCall.called
    /\ listCall.does = "filterByScore"
    /\ listCall.minScore = <<>>
    /\ Len(listCall.list) = 3
    /\ listCall.list[1].totalScore = 4
    /\ listCall.list[2].totalScore = 5
    /\ listCall.value[1] = <<listCall.list[2]>>


\* the instruction type a decoder reads from the payload, -1 when the
\* payload is too short to hold one: four little-endian bytes for the
\* system decoder, one byte for the token decoder
Discriminator ==
    IF decodeCall.decoder = "system"
    THEN IF Len(Payload) >= 4
         THEN Payload[1] + 256 * Payload[2] + 65536 * Payload[3] + 16777216 * Payload[4]
         ELSE -1
    ELSE IF Len(Payload) >= 1 THEN Payload[1] ELSE -1

\* the instruction types a decoder has a case for
KnownTypes == IF decodeCall.decoder = "system" THEN 0..8 ELSE {0, 1, 3, 7, 8, 9, 12}

\* the positions of instruction.accounts the case of an instruction type reads
PositionsRead ==
    IF decodeCall.decoder = "system"
    THEN CASE Discriminator \in {0, 2, 3, 7} -> {0, 1}
           [] Discriminator \in {1, 6, 8} -> {0}
           [] Discriminator = 4 -> {0, 2}
           [] Discriminator = 5 -> {0, 1, 4}
           [] OTHER -> {}
    ELSE CASE Discriminator \in {1, 3, 7, 8, 9} -> {0, 1, 2}
           [] Discriminator = 12 -> {0, 1, 2, 3}
           [] Discriminator = 0 -> {0}
           [] OTHER -> {}

\* position index of the instruction names an entry of the account list
Resolves(index) ==
    /\ index < Len(decodeCall.instruction.accounts)
    /\ decodeCall.instruction.accounts[index + 1] \in 0..(Len(decodeCall.accountKeys) - 1)

\* a step of the decoder's try block throws
StepThrows ==
    \/ ~decodeCall.instruction.data.base58
    \/ \E index \in PositionsRead : ~Resolves(index)

UnknownInstructionType ==
    IF decodeCall.decoder = "system" THEN "Unknown System Instruction"
    ELSE "Unknown Token Instruction"

\* C27: decode of either decoder never throws and returns a decoded
\* instruction; when the payload is not base-58 or a position the case reads
\* does not resolve, it is the decoder's Unknown ... Instruction with params
\* {error: "Failed to decode"}; when nothing throws and the instruction type
\* is outside the known set, it is the same type with params
\* {instructionType}.
C27_DecodeNeverThrows ==
    decodeCall.called =>
        /\ decodeCall.thrown = <<>>
        /\ Len(decodeCall.decoded) = 1
        /\ StepThrows =>
               decodeCall.decoded[1] =
                   [type |-> UnknownInstructionType,
                    params |-> <<<<"error", "Failed to decode">>>>]
        /\ (~StepThrows /\ Discriminator \notin KnownTypes) =>
               /\ decodeCall.decoded[1].type = UnknownInstructionType
               /\ Len(decodeCall.decoded[1].params) = 1
               /\ decodeCall.decoded[1].params[1][1] = "instructionType"
               /\ Discriminator >= 0 =>
                      decodeCall.decoded[1].params[1][2] = Num(Discriminator)

\* the token decoder met an account position that does not resolve, in a
\* base-58 payload of a known type, and returned the failure value
C27_Witness ==
    /\ decodeCall.called
    /\ decodeCall.decoder = "token"
    /\ decodeCall.instruction.data.base58
    /\ Discriminator = 12
    /\ StepThrows
    /\ decodeCall.decoded = <<[type |-> "Unknown Token Instruction",
                               params |-> <<<<"error", "Failed to decode">>>>]>>


\* a key whose delta is a number other than 0 has an accountIndex outside
\* the account-key list
ChangedKeyUnresolved == \E key \in ChangedKeys : ~InKeys(key[1])

Orders(n) == {p \in [1..n -> 1..n] : \A i, j \in 1..n : p[i] = p[j] => i = j}

\* out holds the scored inputs, out[i] being the score of input p[i], by
\* non-increasing totalScore and, among equal scores, in input order
SortedAs(out, p, inputs, rules) ==
    /\ \A i \in 1..Len(out) :
           /\ out[i].transaction = inputs[p[i]]
           /\ <<out[i]>> = scoreTransaction(inputs[p[i]], rules).value
    /\ \A i, j \in 1..Len(out) :
           i < j => \/ out[i].totalScore > out[j].totalScore
                    \/ out[i].totalScore = out[j].totalScore /\ p[i] < p[j]

\* C29: the list scoreTransactions returns has one scored transaction per
\* input, by non-increasing totalScore, equal scores in input order; and
\* the first element of the list the find pipeline (scoreTransactions,
\* filterByScore, filterByTags) leaves has the largest totalScore of it.
C29_SortedByScoreTopFirst ==
    (listCall.called /\ listCall.value # <<>>) =>
        LET out == listCall.value[1]
        IN  /\ listCall.does = "scoreTransactions" =>
                /\ Len(out) = Len(listCall.list)
                /\ \E p \in Orders(Len(out)) :
                       SortedAs(out, p, listCall.list, listCall.rules)
            /\ (listCall.does = "find" /\ out # <<>>) =>
                \A n \in 1..Len(out) : out[1].totalScore >= out[n].totalScore

\* scoreTransactions moved the last of three inputs to the front and left
\* the two inputs of equal score in their order
C29_Witness ==
    /\ listCall.called
    /\ listCall.does = "scoreTransactions"
    /\ Len(listCall.list) = 3
    /\ listCall.list[1].signature # listCall.list[2].signature
    /\ listCall.value # <<>>
    /\ listCall.value[1][1].transaction = listCall.list[3]
    /\ listCall.value[1][2].transaction = listCall.list[1]
    /\ listCall.value[1][3].transaction = listCall.list[2]
    /\ listCall.value[1][1].totalScore > listCall.value[1][2].totalScore
    /\ listCall.value[1][2].totalScore = listCall.value[1][3].totalScore


\* C30: under DEFAULT_RULES the tags of a scored transaction are all
\* different and at most 8, new_token and nft_mint never both among them,
\* totalScore is in 0..54, and totalScore is above 0 exactly when there is
\* a tag and topTag is one of the tags.
C30_DefaultScoreBounds ==
    (scoreCall.called /\ scoreCall.value # <<>> /\ scoreCall.rules = DEFAULT_RULES) =>
        LET scored == scoreCall.value[1]
            tagsOf == {scored.tags[k] : k \in 1..Len(scored.tags)}
        IN  /\ \A j, k \in 1..Len(scored.tags) : scored.tags[j] = scored.tags[k] => j = k
            /\ Len(scored.tags) <= 8
            /\ ~({"new_token", "nft_mint"} \subseteq tagsOf)
            /\ scored.totalScore \in 0..54
            /\ scored.totalScore > 0 <=> (scored.tags # <<>> /\ scored.topTag \in tagsOf)

\* every signal is present at its highest score: eight tags, 54 points
C30_Witness ==
    /\ scoreCall.called
    /\ scoreCall.value # <<>>
    /\ scoreCall.rules = DEFAULT_RULES
    /\ Len(scoreCall.value[1].tags) = 8
    /\ scoreCall.value[1].totalScore = 54
    /\ scoreCall.value[1].topTag = "whale_move"

====
